---- MODULE Spec2Model ----
(***************************************************************************)
(* A model of rAPI's syntax-highlighting core:                             *)
(*   - tokenizeHtml / tokenizeJson   (src/webview/ResponseViewer.tsx)      *)
(*   - resolveTokenColors / findColor / getThemeTokenColors                *)
(*                                    (src/themeColors.ts)                 *)
(* A JavaScript string is a sequence of one-character strings; offsets are *)
(* 0-based as in the source.                                               *)
(***************************************************************************)
EXTENDS Integers, Sequences, FiniteSets, TLC

VARIABLES
  html, hIndex, hTokens, hPc,      \* tokenizeHtml: input, re.lastIndex, tokens, position
  json, jLast, jTokens, jPc,       \* tokenizeJson: input, lastIndex, tokens, position
  kind,                            \* vscode.window.activeColorTheme.kind
  themeName,                       \* workbench.colorTheme
  fs,                              \* the theme files: uri -> document
  tPc,                             \* getThemeTokenColors: position
  defaults,                        \* getThemeTokenColors: the palette chosen (line 211)
  stack,                           \* resolveTokenColors: frames awaiting their include
  cur,                             \* resolveTokenColors: uri the newest frame reads
  ret,                             \* resolveTokenColors: value a frame has returned
  rules,                           \* getThemeTokenColors: the flattened rules (line 239)
  result,                          \* getThemeTokenColors: the value returned
  heap,                            \* themeColors.ts objects: the two palettes and the maps built
  rb,                              \* getThemeTokenColors calls in flight: position, defaults, result
  maps,                            \* the maps getThemeTokenColors calls have returned
  themeCalls,                      \* the changes of the active theme and their handler calls
  esInput, esEnv,                  \* envSubstitute: the arguments
  esResult, esMissing,             \* envSubstitute: the value returned
  esPc,                            \* envSubstitute: position
  sRequest, sEnv,                  \* sendRequest: the arguments
  sPc,                             \* sendRequest: position
  sMissing,                        \* sendRequest: missingVars of applyEnv
  sWire,                           \* sendRequest: what req.write / req.end put on the wire
  sOutcome,                        \* sendRequest: how the promise settled
  sRes,                            \* sendRequest: the response callback's locals and result
  files,                           \* .rapi/collections: file name -> content
  sv,                              \* saveRequestToCollection calls: position and locals
  svClock,                         \* Date readings taken so far
  mPanel,                          \* WebviewPanelManager.panel
  mTheme,                          \* WebviewPanelManager.themeDisposable is set
  panels,                          \* the webview panels created: their state
  mOpens,                          \* open() calls awaiting getHtml: their panel
  mLast,                           \* what the last open() call did
  app,                             \* the webview's App component: its React state
  wvTrace,                         \* the messages the webviews were handed, and whether a listener took them
  ed,                              \* the webview's RequestEditor component: its React state
  calls                            \* the sendRequest messages of the webviews and their handleMessage calls

htmlVars == <<html, hIndex, hTokens, hPc>>
jsonVars == <<json, jLast, jTokens, jPc>>
themeVars == <<kind, themeName, fs, tPc, defaults, stack, cur, ret, rules, result>>
rebuildVars == <<heap, rb, maps, themeCalls>>
\* The variables of the components that follow the tokenizers and the theme
\* pipeline.
envVars == <<esInput, esEnv, esResult, esMissing, esPc>>
sendVars == <<sRequest, sEnv, sPc, sMissing, sWire, sOutcome, sRes>>
storeVars == <<files, sv, svClock>>
panelVars == <<mPanel, mTheme, panels, mOpens, mLast, app, wvTrace, ed, calls>>
laterVars == <<rebuildVars, envVars, sendVars, storeVars, panelVars>>
vars == <<htmlVars, jsonVars, themeVars, laterVars>>

----------------------------------------------------------------------------
(* Characters and the regular-expression character classes.                *)

LowerLetters == <<"a","b","c","d","e","f","g","h","i","j","k","l","m",
                  "n","o","p","q","r","s","t","u","v","w","x","y","z">>
UpperLetters == <<"A","B","C","D","E","F","G","H","I","J","K","L","M",
                  "N","O","P","Q","R","S","T","U","V","W","X","Y","Z">>

Range(f) == {f[k] : k \in DOMAIN f}

\* [a-zA-Z]
Letter == Range(LowerLetters) \cup Range(UpperLetters)
\* \d
Digit == {"0","1","2","3","4","5","6","7","8","9"}
\* \w
WordChar == Letter \cup Digit \cup {"_"}
\* \s (the members that occur in the inputs modelled)
SpaceChar == {" ", "\n", "\t", "\r"}
\* [\w-]
TagNameChar == WordChar \cup {"-"}
\* [\w-:]
AttrNameChar == WordChar \cup {"-", ":"}
\* ["']
QuoteChar == {"\"", "'"}

\* Case folding of the regex i flag.
ToUpper(c) ==
  IF \E k \in DOMAIN LowerLetters : LowerLetters[k] = c
  THEN UpperLetters[CHOOSE k \in DOMAIN LowerLetters : LowerLetters[k] = c]
  ELSE c

\* s[i] with JavaScript's 0-based index; "" past the end (member of no class).
At(s, i) == IF i >= 0 /\ i < Len(s) THEN s[i + 1] ELSE ""

\* s.slice(a, b)
Slice(s, a, b) == SubSeq(s, a + 1, b)

\* s.startsWith(p, i)
StartsWithAt(s, i, p) ==
  /\ i + Len(p) <= Len(s)
  /\ \A k \in 1..Len(p) : s[i + k] = p[k]

StartsWith(s, p) == StartsWithAt(s, 0, p)

\* Case-insensitive literal match at offset i.
StartsWithCIAt(s, i, p) ==
  /\ i + Len(p) <= Len(s)
  /\ \A k \in 1..Len(p) : ToUpper(s[i + k]) = ToUpper(p[k])

\* End of the maximal run of characters of class S starting at i (greedy S*).
RunEnd(s, i, S) ==
  CHOOSE j \in i..Len(s) :
    /\ \A k \in i..(j - 1) : At(s, k) \in S
    /\ (j = Len(s) \/ At(s, j) \notin S)

\* End of the maximal run of characters outside S starting at i (greedy [^S]*).
RunEndNot(s, i, S) ==
  CHOOSE j \in i..Len(s) :
    /\ \A k \in i..(j - 1) : At(s, k) \notin S
    /\ (j = Len(s) \/ At(s, j) \in S)

Min(S) == CHOOSE x \in S : \A y \in S : x <= y
Max(S) == CHOOSE x \in S : \A y \in S : x >= y

RECURSIVE Concat(_)
\* tokens.map(t => t.value).join("")
Concat(toks) ==
  IF toks = <<>> THEN <<>> ELSE Head(toks).value \o Concat(Tail(toks))

RECURSIVE Flatten(_)
Flatten(ss) == IF ss = <<>> THEN <<>> ELSE Head(ss) \o Flatten(Tail(ss))

Tok(t, v) == [type |-> t, value |-> v]

----------------------------------------------------------------------------
(* tokenizeHtml                                                            *)

LT == "<"
GT == ">"

\* <!--[\s\S]*?-->  at offset i: the end of the match, or -1.
HtmlCommentEnd(s, i) ==
  LET closes == {j \in (i + 4)..Len(s) : StartsWithAt(s, j, <<"-", "-", ">">>)}
  IN IF StartsWithAt(s, i, <<"<", "!", "-", "-">>) /\ closes # {}
     THEN Min(closes) + 3 ELSE -1

\* <!DOCTYPE[^>]*>  (flag i) at offset i.
HtmlDoctypeEnd(s, i) ==
  LET e == RunEndNot(s, i + 9, {GT})
  IN IF StartsWithCIAt(s, i, <<"<","!","D","O","C","T","Y","P","E">>) /\ At(s, e) = GT
     THEN e + 1 ELSE -1

\* <\/?[a-zA-Z][^>]*\/?>  at offset i.
HtmlTagEnd(s, i) ==
  LET k == IF At(s, i + 1) = "/" /\ At(s, i + 2) \in Letter THEN i + 2 ELSE i + 1
      e == RunEndNot(s, k + 1, {GT})
  IN IF At(s, i) = LT /\ At(s, k) \in Letter /\ At(s, e) = GT
     THEN e + 1 ELSE -1

\* [^<]+  at offset i.
HtmlTextEnd(s, i) ==
  IF i < Len(s) /\ At(s, i) # LT THEN RunEndNot(s, i, {LT}) ELSE -1

\* The alternation at offset i, in priority order: the end of the match, or -1.
HtmlMatchEnd(s, i) ==
  IF HtmlCommentEnd(s, i) # -1 THEN HtmlCommentEnd(s, i)
  ELSE IF HtmlDoctypeEnd(s, i) # -1 THEN HtmlDoctypeEnd(s, i)
  ELSE IF HtmlTagEnd(s, i) # -1 THEN HtmlTagEnd(s, i)
  ELSE HtmlTextEnd(s, i)

\* re.exec(html) from lastIndex: the offsets at which the pattern matches.
HtmlMatchStarts(s, from) == {i \in from..(Len(s) - 1) : HtmlMatchEnd(s, i) # -1}

\* (\s*\/?>) at offset r: the end of the match, or -1.
TagCloseEnd(f, r) ==
  LET e  == RunEnd(f, r, SpaceChar)
      e2 == IF At(f, e) = "/" /\ At(f, e + 1) = GT THEN e + 1 ELSE e
  IN IF At(f, e2) = GT THEN e2 + 1 ELSE -1

\* tagRe = /(<\/?)([\w-]+)((?:\s+[\s\S]*?)?)(\s*\/?>)/ tried at offset p of f:
\* the offsets that end groups 1, 2, 3 and 4, or ok = FALSE.
TagMatchAt(f, p) ==
  LET a == IF At(f, p + 1) = "/" THEN p + 2 ELSE p + 1
      q == RunEnd(f, a, TagNameChar)
      w == RunEnd(f, q, SpaceChar)
      rs == {r \in w..Len(f) : TagCloseEnd(f, r) # -1}
      NoMatch == [ok |-> FALSE, p |-> p, g1 |-> p, g2 |-> p, g3 |-> p, g4 |-> p]
  IN IF At(f, p) # LT \/ q = a THEN NoMatch
     ELSE IF w > q
       THEN \* the attribute region starts with whitespace and grows lazily
            IF rs = {} THEN NoMatch
            ELSE [ok |-> TRUE, p |-> p, g1 |-> a, g2 |-> q, g3 |-> Min(rs),
                  g4 |-> TagCloseEnd(f, Min(rs))]
       ELSE \* empty attribute region
            IF TagCloseEnd(f, q) = -1 THEN NoMatch
            ELSE [ok |-> TRUE, p |-> p, g1 |-> a, g2 |-> q, g3 |-> q,
                  g4 |-> TagCloseEnd(f, q)]

\* tagRe.exec(full): the pattern is not anchored, so the first offset that
\* matches is taken.
TagExec(f) ==
  LET ps == {p \in 0..(Len(f) - 1) : TagMatchAt(f, p).ok}
  IN IF ps = {} THEN [ok |-> FALSE] ELSE TagMatchAt(f, Min(ps))

\* attrRe = /([\w-:]+)(\s*=\s*)(["'][^"']*["']|[\w-]+)|(\s+)/g at offset i:
\* alt 1 (a name=value pair) gives the ends of groups 1, 2, 3.
AttrPairAt(a, i) ==
  LET n  == RunEnd(a, i, AttrNameChar)
      e1 == RunEnd(a, n, SpaceChar)
      e2 == RunEnd(a, e1 + 1, SpaceChar)
      c  == RunEndNot(a, e2 + 1, QuoteChar)
      v  == IF At(a, e2) \in QuoteChar
            THEN (IF At(a, c) \in QuoteChar THEN c + 1 ELSE -1)
            ELSE IF At(a, e2) \in TagNameChar THEN RunEnd(a, e2, TagNameChar)
            ELSE -1
  IN IF n > i /\ At(a, e1) = "=" /\ v # -1
     THEN [ok |-> TRUE, g1 |-> n, g2 |-> e2, g3 |-> v]
     ELSE [ok |-> FALSE]

\* alt 2 of attrRe: (\s+)
AttrSpaceEnd(a, i) == IF At(a, i) \in SpaceChar THEN RunEnd(a, i, SpaceChar) ELSE -1

AttrMatchesAt(a, i) == AttrPairAt(a, i).ok \/ AttrSpaceEnd(a, i) # -1

RECURSIVE AttrTokens(_, _)
\* The attribute loop of tokenizeHtml, from ai on.
AttrTokens(a, ai) ==
  LET starts == {i \in ai..(Len(a) - 1) : AttrMatchesAt(a, i)}
      i   == Min(starts)
      pr  == AttrPairAt(a, i)
      gap == IF i > ai THEN <<Tok("ws", Slice(a, ai, i))>> ELSE <<>>
  IN IF starts = {}
     THEN (IF ai < Len(a) THEN <<Tok("ws", Slice(a, ai, Len(a)))>> ELSE <<>>)
     ELSE IF pr.ok
       THEN gap \o <<Tok("attr-name", Slice(a, i, pr.g1)),
                     Tok("punct", Slice(a, pr.g1, pr.g2)),
                     Tok("attr-value", Slice(a, pr.g2, pr.g3))>>
                \o AttrTokens(a, pr.g3)
       ELSE gap \o <<Tok("ws", Slice(a, i, AttrSpaceEnd(a, i)))>>
                \o AttrTokens(a, AttrSpaceEnd(a, i))

\* The tokens pushed for a match that starts with "<" and not with "<!".
HtmlTagTokens(full) ==
  LET tm == TagExec(full)
  IN IF tm.ok
     THEN <<Tok("tag", Slice(full, tm.p, tm.g1)), Tok("tag", Slice(full, tm.g1, tm.g2))>>
          \o (IF tm.g3 > tm.g2 THEN AttrTokens(Slice(full, tm.g2, tm.g3), 0) ELSE <<>>)
          \o <<Tok("tag", Slice(full, tm.g3, tm.g4))>>
     ELSE <<Tok("tag", full)>>

\* The tokens pushed by one iteration of the while loop for the match `full`.
HtmlTokensFor(full) ==
  IF StartsWith(full, <<"<", "!", "-", "-">>) THEN <<Tok("comment", full)>>
  ELSE IF StartsWith(full, <<"<", "!">>) THEN <<Tok("doctype", full)>>
  ELSE IF StartsWith(full, <<LT>>) THEN HtmlTagTokens(full)
  ELSE <<Tok("ws", full)>>

----------------------------------------------------------------------------
(* tokenizeJson                                                            *)

\* Line terminators, which "." does not match.
LineTerminator == {"\n", "\r"}

\* JsonStringBody that takes no account of the backslash: the string ends at
\* the next quote.
MutJsonStringFirstQuote(s, j) ==
  LET qs == {k \in j..(Len(s) - 1) : At(s, k) = "\""}
  IN IF qs = {} THEN -1 ELSE Min(qs) + 1

RECURSIVE JsonStringBody(_, _)
\* (?:[^"\\]|\\.)*" from offset j: the end of the match, or -1.
JsonStringBody(s, j) ==
  IF j >= Len(s) THEN -1
  ELSE IF At(s, j) = "\"" THEN j + 1
  ELSE IF At(s, j) = "\\"
    THEN (IF j + 1 < Len(s) /\ At(s, j + 1) \notin LineTerminator
          THEN JsonStringBody(s, j + 2) ELSE -1)
  ELSE JsonStringBody(s, j + 1)

\* "(?:[^"\\]|\\.)*"  at offset i.
JsonStringEnd(s, i) == IF At(s, i) = "\"" THEN JsonStringBody(s, i + 1) ELSE -1

\* -?\d+(?:\.\d+)?(?:[eE][+-]?\d+)?  at offset i.
JsonNumberEnd(s, i) ==
  LET m == IF At(s, i) = "-" THEN i + 1 ELSE i
      d == RunEnd(s, m, Digit)
      f == IF At(s, d) = "." /\ RunEnd(s, d + 1, Digit) > d + 1
           THEN RunEnd(s, d + 1, Digit) ELSE d
      x == IF At(s, f + 1) \in {"+", "-"} THEN f + 2 ELSE f + 1
      y == IF At(s, f) \in {"e", "E"} /\ RunEnd(s, x, Digit) > x
           THEN RunEnd(s, x, Digit) ELSE f
  IN IF d > m THEN y ELSE -1

\* \b at offset i
WordBoundary(s, i) == (At(s, i - 1) \in WordChar) # (At(s, i) \in WordChar)

\* \bword\b at offset i.
JsonWordEnd(s, i, word) ==
  IF /\ WordBoundary(s, i)
     /\ StartsWithAt(s, i, word)
     /\ WordBoundary(s, i + Len(word))
  THEN i + Len(word) ELSE -1

TrueLit  == <<"t", "r", "u", "e">>
FalseLit == <<"f", "a", "l", "s", "e">>
NullLit  == <<"n", "u", "l", "l">>

\* [{}\[\],:]
JsonPunctChar == {"{", "}", "[", "]", ",", ":"}

NoJsonMatch == [alt |-> 0, end |-> -1, g1 |-> -1]

\* The alternation of tokenizeJson's pattern at offset i, in priority order:
\* alt is the alternative that matched (0: none), g1 the end of group 1.
JsonMatchAt(s, i) ==
  LET se == JsonStringEnd(s, i)
      c  == RunEnd(s, se, SpaceChar)
  IN IF se # -1 /\ At(s, c) = ":" THEN [alt |-> 1, end |-> c + 1, g1 |-> se]
     ELSE IF se # -1 THEN [alt |-> 2, end |-> se, g1 |-> -1]
     ELSE IF JsonNumberEnd(s, i) # -1
       THEN [alt |-> 3, end |-> JsonNumberEnd(s, i), g1 |-> -1]
     ELSE IF JsonWordEnd(s, i, TrueLit) # -1
       THEN [alt |-> 4, end |-> JsonWordEnd(s, i, TrueLit), g1 |-> -1]
     ELSE IF JsonWordEnd(s, i, FalseLit) # -1
       THEN [alt |-> 4, end |-> JsonWordEnd(s, i, FalseLit), g1 |-> -1]
     ELSE IF JsonWordEnd(s, i, NullLit) # -1
       THEN [alt |-> 5, end |-> JsonWordEnd(s, i, NullLit), g1 |-> -1]
     ELSE IF i < Len(s) /\ At(s, i) \in JsonPunctChar
       THEN [alt |-> 6, end |-> i + 1, g1 |-> -1]
     ELSE NoJsonMatch

\* re.exec(json) from lastIndex: the offsets at which the pattern matches.
JsonMatchStarts(s, from) == {i \in from..(Len(s) - 1) : JsonMatchAt(s, i).alt # 0}

\* The tokens pushed for the match m that starts at offset i (lines 271-285).
JsonTokensFor(s, i, m) ==
  LET full == Slice(s, i, m.end)
  IN IF m.alt = 1
       THEN <<Tok("key", Slice(s, i, m.g1)), Tok("punct", Slice(s, m.g1, m.end))>>
     ELSE IF m.alt = 4 THEN <<Tok("bool", full)>>
     ELSE IF full = NullLit THEN <<Tok("null", full)>>
     ELSE IF m.alt = 3 THEN <<Tok("number", full)>>
     ELSE IF m.alt = 6 THEN <<Tok("punct", full)>>
     ELSE <<Tok("string", full)>>

\* JsonGapBefore without lines 268-270: the skipped text is not pushed.
MutJsonNoGap(s, last, i) == <<>>

\* The gap token pushed before a match at offset i (lines 268-270).
JsonGapBefore(s, last, i) ==
  IF i > last THEN <<Tok("ws", Slice(s, last, i))>> ELSE <<>>

\* The gap token pushed after the loop (lines 288-290).
JsonTail(s, last) ==
  IF last < Len(s) THEN <<Tok("ws", Slice(s, last, Len(s)))>> ELSE <<>>

----------------------------------------------------------------------------
(* themeColors.ts: the data.                                               *)

\* JavaScript's undefined, where a string is expected.
Undefined == "undefined"

\* !x for x a string or undefined
Truthy(x) == x # Undefined /\ x # ""

Slots == <<"key", "string", "number", "bool", "nullVal", "tag", "attrName",
           "attrValue", "comment", "punctuation">>
SlotSet == Range(Slots)

SCOPE_MAP ==
  <<
    [token |-> "key",
     scopes |-> <<
         \* support.type.property-name
         <<"s","u","p","p","o","r","t",".","t","y","p","e",".","p","r","o","p","e","r","t","y","-","n","a","m","e">>,
         \* meta.object-literal.key
         <<"m","e","t","a",".","o","b","j","e","c","t","-","l","i","t","e","r","a","l",".","k","e","y">>,
         \* string.json support.type.property-name
         <<"s","t","r","i","n","g",".","j","s","o","n"," ","s","u","p","p","o","r","t",".","t","y","p","e",".","p","r","o","p","e","r","t","y","-","n","a","m","e">> >>],
    [token |-> "string",
     scopes |-> <<
         \* string.quoted
         <<"s","t","r","i","n","g",".","q","u","o","t","e","d">>,
         \* string
         <<"s","t","r","i","n","g">> >>],
    [token |-> "number",
     scopes |-> <<
         \* constant.numeric
         <<"c","o","n","s","t","a","n","t",".","n","u","m","e","r","i","c">>,
         \* constant.numeric.json
         <<"c","o","n","s","t","a","n","t",".","n","u","m","e","r","i","c",".","j","s","o","n">> >>],
    [token |-> "bool",
     scopes |-> <<
         \* constant.language.boolean
         <<"c","o","n","s","t","a","n","t",".","l","a","n","g","u","a","g","e",".","b","o","o","l","e","a","n">>,
         \* constant.language.json
         <<"c","o","n","s","t","a","n","t",".","l","a","n","g","u","a","g","e",".","j","s","o","n">>,
         \* constant.language
         <<"c","o","n","s","t","a","n","t",".","l","a","n","g","u","a","g","e">> >>],
    [token |-> "nullVal",
     scopes |-> <<
         \* constant.language.null
         <<"c","o","n","s","t","a","n","t",".","l","a","n","g","u","a","g","e",".","n","u","l","l">>,
         \* constant.language.undefined
         <<"c","o","n","s","t","a","n","t",".","l","a","n","g","u","a","g","e",".","u","n","d","e","f","i","n","e","d">> >>],
    [token |-> "tag",
     scopes |-> <<
         \* entity.name.tag
         <<"e","n","t","i","t","y",".","n","a","m","e",".","t","a","g">>,
         \* entity.name.tag.html
         <<"e","n","t","i","t","y",".","n","a","m","e",".","t","a","g",".","h","t","m","l">> >>],
    [token |-> "attrName",
     scopes |-> <<
         \* entity.other.attribute-name
         <<"e","n","t","i","t","y",".","o","t","h","e","r",".","a","t","t","r","i","b","u","t","e","-","n","a","m","e">>,
         \* entity.other.attribute-name.html
         <<"e","n","t","i","t","y",".","o","t","h","e","r",".","a","t","t","r","i","b","u","t","e","-","n","a","m","e",".","h","t","m","l">> >>],
    [token |-> "attrValue",
     scopes |-> <<
         \* string.quoted.double.html
         <<"s","t","r","i","n","g",".","q","u","o","t","e","d",".","d","o","u","b","l","e",".","h","t","m","l">>,
         \* meta.attribute string
         <<"m","e","t","a",".","a","t","t","r","i","b","u","t","e"," ","s","t","r","i","n","g">> >>],
    [token |-> "comment",
     scopes |-> <<
         \* comment
         <<"c","o","m","m","e","n","t">>,
         \* comment.block
         <<"c","o","m","m","e","n","t",".","b","l","o","c","k">>,
         \* comment.line
         <<"c","o","m","m","e","n","t",".","l","i","n","e">> >>],
    [token |-> "punctuation",
     scopes |-> <<
         \* punctuation
         <<"p","u","n","c","t","u","a","t","i","o","n">>,
         \* meta.brace
         <<"m","e","t","a",".","b","r","a","c","e">>,
         \* punctuation.definition
         <<"p","u","n","c","t","u","a","t","i","o","n",".","d","e","f","i","n","i","t","i","o","n">> >>]
  >>

DARK_DEFAULTS ==
  [key |-> "#9cdcfe", string |-> "#ce9178", number |-> "#b5cea8", bool |-> "#569cd6",
   nullVal |-> "#569cd6", tag |-> "#569cd6", attrName |-> "#9cdcfe",
   attrValue |-> "#ce9178", comment |-> "#6a9955", punctuation |-> "#d4d4d4"]

LIGHT_DEFAULTS ==
  [key |-> "#0451a5", string |-> "#a31515", number |-> "#098658", bool |-> "#0000ff",
   nullVal |-> "#0000ff", tag |-> "#800000", attrName |-> "#ff0000",
   attrValue |-> "#0000ff", comment |-> "#008000", punctuation |-> "#000000"]

\* vscode.ColorThemeKind
ThemeKinds == {"Light", "Dark", "HighContrast", "HighContrastLight"}

\* A ThemeTokenColorRule: scope is an array of selectors, one string, or absent;
\* fg is settings?.foreground.
ArrayScope(sels) == [kind |-> "array", items |-> sels]
StringScope(text) == [kind |-> "string", items |-> <<text>>]
NoScope == [kind |-> "none", items |-> <<>>]
Rule(scope, fg) == [scope |-> scope, fg |-> fg]

----------------------------------------------------------------------------
(* findColor                                                               *)

\* String.prototype.trim
Trim(s) ==
  LET keep == {i \in 1..Len(s) : s[i] \notin SpaceChar}
  IN IF keep = {} THEN <<>> ELSE SubSeq(s, Min(keep), Max(keep))

RECURSIVE SplitFrom(_, _)
\* s.split(/\s*,\s*/), from offset `from` on: a separator is a comma with the
\* whitespace around it.
SplitFrom(s, from) ==
  LET commas == {c \in from..(Len(s) - 1) : At(s, c) = ","}
      c == Min(commas)
      a == Min({i \in from..c : \A k \in i..(c - 1) : At(s, k) \in SpaceChar})
  IN IF commas = {} THEN <<Slice(s, from, Len(s))>>
     ELSE <<Slice(s, from, a)>> \o SplitFrom(s, RunEnd(s, c + 1, SpaceChar))

\* ruleScopes (lines 166-170)
RuleScopes(rule) ==
  IF rule.scope.kind = "array" THEN rule.scope.items
  ELSE IF rule.scope.kind = "string" THEN SplitFrom(rule.scope.items[1], 0)
  ELSE <<>>

\* MatchesDown without the delimiter: any character prefix matches.
MutMatchesDownPrefix(target, trimmed) == StartsWith(target, trimmed)

\* lines 175-179: the rule scope is the target or an ancestor of it
MatchesDown(target, trimmed) ==
  \/ target = trimmed
  \/ StartsWith(target, trimmed \o <<".">>)
  \/ StartsWith(target, trimmed \o <<" ">>)

\* lines 186-190: the rule scope is a descendant of the target
MatchesUp(target, trimmed) ==
  \/ StartsWith(trimmed, target \o <<".">>)
  \/ StartsWith(trimmed, target \o <<" ">>)
  \/ trimmed = target

\* Better that keeps the first match whatever its length.
MutBetterFirstMatch(len, bestSpecificity) == bestSpecificity = -1

\* Better with >= for >: a later match of equal length replaces the best.
MutBetterOrEqual(len, bestSpecificity) == len >= bestSpecificity

\* lines 180-183 and 191-194: a match replaces the best so far
Better(len, bestSpecificity) == len > bestSpecificity

\* One iteration of the loop over targetScopes (lines 174-196).
FindTarget(best, trimmed, fg, target) ==
  LET b1 == IF MatchesDown(target, trimmed) /\ Better(Len(trimmed), best.spec)
            THEN [color |-> fg, spec |-> Len(trimmed)] ELSE best
  IN IF MatchesUp(target, trimmed) /\ Better(Len(trimmed), b1.spec)
     THEN [color |-> fg, spec |-> Len(trimmed)] ELSE b1

\* FindTargets that tests the first target scope only.
MutFindFirstTarget(best, trimmed, fg, targets) ==
  IF targets = <<>> THEN best ELSE FindTarget(best, trimmed, fg, Head(targets))

RECURSIVE FindTargets(_, _, _, _)
FindTargets(best, trimmed, fg, targets) ==
  IF targets = <<>> THEN best
  ELSE FindTargets(FindTarget(best, trimmed, fg, Head(targets)), trimmed, fg, Tail(targets))

RECURSIVE FindScopes(_, _, _, _)
\* The loop over ruleScopes (lines 172-197).
FindScopes(best, ruleScopes, fg, targets) ==
  IF ruleScopes = <<>> THEN best
  ELSE FindScopes(FindTargets(best, Trim(Head(ruleScopes)), fg, targets),
                  Tail(ruleScopes), fg, targets)

\* line 164: a rule without a foreground is skipped
HasForeground(rule) == Truthy(rule.fg)

RECURSIVE FindRules(_, _, _)
\* The loop over rules (lines 163-198).
FindRules(best, rs, targets) ==
  IF rs = <<>> THEN best
  ELSE FindRules(IF HasForeground(Head(rs))
                 THEN FindScopes(best, RuleScopes(Head(rs)), Head(rs).fg, targets)
                 ELSE best,
                 Tail(rs), targets)

findColor(targetScopes, rs) ==
  FindRules([color |-> Undefined, spec |-> -1], rs, targetScopes).color

----------------------------------------------------------------------------
(* getThemeTokenColors: the palette and the color map                      *)

\* DefaultsFor without the HighContrastLight test.
MutDefaultsLightOnly(k) == IF k = "Light" THEN LIGHT_DEFAULTS ELSE DARK_DEFAULTS

\* lines 208-211
DefaultsFor(k) ==
  IF k = "Light" \/ k = "HighContrastLight" THEN LIGHT_DEFAULTS ELSE DARK_DEFAULTS

\* The scopes SCOPE_MAP gives a slot.
ScopesOf(slot) ==
  SCOPE_MAP[CHOOSE k \in DOMAIN SCOPE_MAP : SCOPE_MAP[k].token = slot].scopes

\* SlotColor without the test of line 246.
MutSlotColorUnchecked(dflt, color) == color

\* lines 245-248: a slot keeps its default unless findColor gives a color
SlotColor(dflt, color) == IF Truthy(color) THEN color ELSE dflt

\* lines 240-251
BuildColors(dflts, rs) ==
  IF Len(rs) = 0 THEN dflts
  ELSE [slot \in SlotSet |-> SlotColor(dflts[slot], findColor(ScopesOf(slot), rs))]

----------------------------------------------------------------------------
(* resolveTokenColors and the lookup of the theme file                     *)

NoUri == "none"
Uris == {"a.json", "b.json", "c.json"}

\* A theme file: readable is FALSE when readThemeFile throws (the file is
\* missing or is not JSON); include is NoUri when the theme has no include;
\* hasTokenColors is Array.isArray(theme.tokenColors).
Doc(readable, include, hasTokenColors, tokenColors) ==
  [readable |-> readable, include |-> include,
   hasTokenColors |-> hasTokenColors, tokenColors |-> tokenColors]

UnreadableDoc == Doc(FALSE, NoUri, FALSE, <<>>)

\* lines 139-141: what the theme's own tokenColors add
OwnRules(doc) == IF doc.hasTokenColors THEN doc.tokenColors ELSE <<>>

\* Overlay with the two spreads swapped: the theme's own rules come first.
MutOverlayOwnFirst(baseRules, doc) == OwnRules(doc) \o baseRules

\* lines 135-143: the base rules, then this theme's tokenColors
Overlay(baseRules, doc) == baseRules \o OwnRules(doc)

\* OnReadFailure without the try/catch in each frame: the exception unwinds
\* every frame and only the outermost caller sees [].
MutReadFailureUnwinds(frames) == [stack |-> <<>>, ret |-> <<>>]

\* lines 144-146: a frame whose read or parse throws returns [] to its caller;
\* the frames awaiting it are kept.
OnReadFailure(frames) == [stack |-> frames, ret |-> <<>>]

\* vscode.extensions.all, each with packageJSON.contributes.themes
Extensions ==
  << [hasThemes |-> FALSE, themes |-> <<>>],
     [hasThemes |-> TRUE,
      themes |-> << [label |-> Undefined, id |-> "solar", path |-> "a.json"] >>] >>

\* line 227: themeContrib.label ?? themeContrib.id ?? ""
LabelOf(t) ==
  IF t.label # Undefined THEN t.label ELSE IF t.id # Undefined THEN t.id ELSE ""

\* lines 221-235: the file of the first contributed theme with that label or id
LookupTheme(name) ==
  LET hits == {<<e, k>> \in (DOMAIN Extensions) \X (1..1) :
                 /\ Extensions[e].hasThemes
                 /\ k \in DOMAIN Extensions[e].themes
                 /\ (LabelOf(Extensions[e].themes[k]) = name
                     \/ Extensions[e].themes[k].id = name)}
      first == CHOOSE h \in hits : \A g \in hits :
                 h[1] < g[1] \/ (h[1] = g[1] /\ h[2] <= g[2])
  IN IF hits = {} THEN NoUri ELSE Extensions[first[1]].themes[first[2]].path

----------------------------------------------------------------------------
(* Inputs: every concatenation of at most Max...Pieces fragments.          *)

MaxHtmlPieces == 3
MaxJsonPieces == 3

HtmlPieces ==
  { <<"<">>, <<">">>, <<"/">>, <<"a">>, <<" ">>, <<".">>,
    <<"<", "!", "-", "-">>, <<"-", "-", ">">>,
    <<"<", "!", "d", "o", "c", "t", "y", "p", "e">>,
    <<"<", "b">>, <<"x", "=", "\"", "y", "\"">>, <<"c", " ", "=", "1">> }

JsonPieces ==
  { <<"\"">>, <<"\\">>, <<":">>, <<" ">>, <<"\n">>, <<"1">>, <<"-">>, <<".">>,
    <<"e">>, <<"{">>, <<",">>, TrueLit, NullLit, <<"\"", "k", "\"">>,
    <<"\"", "\\", "\"", "\"">> }

Concats(pieces, max) ==
  {Flatten(ps) : ps \in UNION {[1..n -> pieces] : n \in 0..max}}

HtmlInputs == Concats(HtmlPieces, MaxHtmlPieces)
JsonInputs == Concats(JsonPieces, MaxJsonPieces)


\* Rule selectors and colors of the rules modelled.
\* 'string'
SelString == <<"s","t","r","i","n","g">>
\* 'string.quoted'
SelStringQuoted == <<"s","t","r","i","n","g",".","q","u","o","t","e","d">>
\* 'string.quoted.double.html'
SelStringHtml == <<"s","t","r","i","n","g",".","q","u","o","t","e","d",".","d","o","u","b","l","e",".","h","t","m","l">>
\* 'string.regexp'
SelStringRegexp == <<"s","t","r","i","n","g",".","r","e","g","e","x","p">>
\* 'comment'
SelComment == <<"c","o","m","m","e","n","t">>
\* 'str'
SelStr == <<"s","t","r">>
\* ' string '
SelStringPadded == <<" ","s","t","r","i","n","g"," ">>
\* 'comment , string.quoted'
TextCommentQuoted == <<"c","o","m","m","e","n","t"," ",","," ","s","t","r","i","n","g",".","q","u","o","t","e","d">>

ColorA == "#111111"
ColorB == "#222222"
ColorC == "#333333"

\* The rules a flattened list is drawn from.
RulePool ==
  { Rule(ArrayScope(<<SelString>>), ColorA),
    Rule(ArrayScope(<<SelStringQuoted>>), ColorB),
    Rule(ArrayScope(<<SelStringRegexp>>), ColorA),
    Rule(ArrayScope(<<SelStringHtml>>), ""),
    Rule(ArrayScope(<<SelStr>>), ColorA),
    Rule(ArrayScope(<<SelStringPadded>>), ColorC),
    Rule(StringScope(TextCommentQuoted), ColorC),
    Rule(ArrayScope(<<SelString>>), Undefined),
    Rule(NoScope, ColorA) }

MaxRules == 3

RuleLists == UNION {[1..n -> RulePool] : n \in 0..MaxRules}

\* The tokenColors a theme file of an include chain is drawn from.
TokenColorsPool ==
  { <<>>,
    <<Rule(ArrayScope(<<SelString>>), ColorA)>>,
    <<Rule(ArrayScope(<<SelString>>), ColorB)>>,
    <<Rule(ArrayScope(<<SelStringQuoted>>), ColorC), Rule(ArrayScope(<<SelComment>>), ColorA)>> }

DocPool ==
  {UnreadableDoc}
    \cup {Doc(TRUE, inc, TRUE, tc) : inc \in Uris \cup {NoUri}, tc \in TokenColorsPool}
    \cup {Doc(TRUE, inc, FALSE, <<>>) : inc \in Uris \cup {NoUri}}

RECURSIVE Reach(_, _, _)
\* The files a resolution from uri u can read.
Reach(f, u, seen) ==
  IF u = NoUri \/ u \in seen THEN seen
  ELSE IF f[u].readable THEN Reach(f, f[u].include, seen \cup {u})
  ELSE seen \cup {u}

\* Files no resolution from root reads are left unreadable: they play no part.
FileSystems(root) ==
  {f \in [Uris -> DocPool] : \A u \in Uris \ Reach(f, root, {}) : f[u] = UnreadableDoc}

ThemeNames == {Undefined, "", "solar", "ghost"}

\* The deepest chain of frames modelled.
MaxDepth == 5

NoColors == [slot \in SlotSet |-> Undefined]

----------------------------------------------------------------------------
(* tokenizeHtml as a state machine: one step per iteration of the loop.    *)

HtmlIdle == html = <<>> /\ hIndex = 0 /\ hTokens = <<>> /\ hPc = "idle"
JsonIdle == json = <<>> /\ jLast = 0 /\ jTokens = <<>> /\ jPc = "idle"
ThemeIdle ==
  /\ kind = "Dark" /\ themeName = Undefined /\ fs = [u \in Uris |-> UnreadableDoc]
  /\ tPc = "idle" /\ defaults = NoColors /\ stack = <<>> /\ cur = NoUri
  /\ ret = <<>> /\ rules = <<>> /\ result = NoColors

\* The module objects of themeColors.ts: the two palettes (lines 68-92) and one
\* object for the map of each getThemeTokenColors call (line 243).
DarkRef == <<"DARK_DEFAULTS", 0>>
LightRef == <<"LIGHT_DEFAULTS", 0>>
MaxRebuilders == 2
Rebuilders == 1..MaxRebuilders
ObjRefs == {DarkRef, LightRef} \cup {<<"result", p>> : p \in Rebuilders}
InitHeap ==
  [o \in ObjRefs |-> IF o = DarkRef THEN DARK_DEFAULTS
                     ELSE IF o = LightRef THEN LIGHT_DEFAULTS ELSE NoColors]
NoCall == [pc |-> "idle", defaults |-> DarkRef, result |-> DarkRef]

RebuildIdle ==
  /\ heap = InitHeap /\ rb = [p \in Rebuilders |-> NoCall] /\ maps = {}
  /\ themeCalls = <<>>

\* An object without own properties, as a function from names to values.
EmptyObject == [k \in {} |-> <<>>]

EnvIdle ==
  /\ esInput = <<>> /\ esEnv = EmptyObject /\ esResult = <<>> /\ esMissing = <<>>
  /\ esPc = "idle"

\* An optional string (body?: string | null) and an optional object
\* (headers?, env?): present says whether it is there.
NoText == [present |-> FALSE, text |-> <<>>]
Text(t) == [present |-> TRUE, text |-> t]
NoObject == [present |-> FALSE, values |-> EmptyObject]
Object(o) == [present |-> TRUE, values |-> o]
\* Nothing has been written to the socket.
NoWire == [sent |-> FALSE, url |-> <<>>, headers |-> EmptyObject, body |-> <<>>]

\* requester.ts line 14
MAX_BODY_SIZE == 1048576

\* The response callback has not run: no chunk has arrived, nothing is kept.
NoResponse ==
  [received |-> <<>>, chunks |-> <<>>, totalSize |-> 0, truncated |-> FALSE,
   ended |-> FALSE, bodyText |-> [bytes |-> <<>>, notice |-> FALSE]]

SendIdle ==
  /\ sRequest = [url |-> <<>>, headers |-> NoObject, body |-> NoText]
  /\ sEnv = NoObject /\ sPc = "idle" /\ sMissing = <<>> /\ sWire = NoWire
  /\ sOutcome = "pending" /\ sRes = NoResponse

\* '.json'
JsonSuffix == <<".","j","s","o","n">>
\* The collection file modelled: 'c.json'.
FileC == <<"c">> \o JsonSuffix
FileNames == {FileC}
\* A file that does not exist, one whose text JSON.parse rejects, and one that
\* holds a Collection.
MissingFile == [kind |-> "missing", name |-> <<>>, requests |-> <<>>]
InvalidFile == [kind |-> "invalid", name |-> <<>>, requests |-> <<>>]
CollectionFile(name, requests) == [kind |-> "collection", name |-> name, requests |-> requests]
\* A RequestSpec: createdAt and updatedAt are 0 when absent.
Request(id, name, createdAt, updatedAt) ==
  [id |-> id, name |-> name, createdAt |-> createdAt, updatedAt |-> updatedAt]
\* The callers of saveRequestToCollection: the saveRequest message of the
\* webview and the commands of extension.ts.
Savers == {"saveRequest message", "command"}
NoSave ==
  [pc |-> "idle", collectionName |-> <<>>, request |-> Request("", "", 0, 0),
   collection |-> MissingFile]

StoreIdle ==
  /\ files = [f \in FileNames |-> MissingFile]
  /\ sv = [p \in Savers |-> NoSave]
  /\ svClock = 0

\* The panels vscode.window.createWebviewPanel can give, and `undefined`.
MaxPanels == 7
PanelIds == 1..MaxPanels
NoPanel == 0
NotCreated ==
  [state |-> "none", visible |-> FALSE, html |-> FALSE, onDidDispose |-> FALSE,
   listening |-> FALSE, inbox |-> <<>>]

\* null, as the value of a state that holds an object otherwise
Null == [kind |-> "null"]

\* App.tsx lines 26-30: the state App starts with
NoApp == [activeRequest |-> Null, result |-> Null, error |-> Null, sending |-> FALSE]

\* RequestEditor.tsx lines 97-110: the state RequestEditor starts with; the
\* id newId() gives is "new".
NoEditor == [requestId |-> "new", method |-> "GET", url |-> "", body |-> "", activeTab |-> "params"]

PanelIdle ==
  /\ mPanel = NoPanel /\ mTheme = FALSE /\ panels = [i \in PanelIds |-> NotCreated]
  /\ mOpens = {} /\ mLast = "none" /\ app = NoApp /\ wvTrace = <<>>
  /\ ed = NoEditor /\ calls = <<>>

LaterIdle == RebuildIdle /\ EnvIdle /\ SendIdle /\ StoreIdle /\ PanelIdle

InitHtml ==
  /\ html \in HtmlInputs
  /\ hIndex = 0
  /\ hTokens = <<>>
  /\ hPc = "loop"
  /\ JsonIdle
  /\ ThemeIdle
  /\ LaterIdle

\* re.exec finds a match: its tokens are pushed (lines 326-371).
HtmlExec ==
  /\ hPc = "loop"
  /\ HtmlMatchStarts(html, hIndex) # {}
  /\ LET i == Min(HtmlMatchStarts(html, hIndex))
         e == HtmlMatchEnd(html, i)
     IN /\ hTokens' = hTokens \o HtmlTokensFor(Slice(html, i, e))
        /\ hIndex' = e
  /\ UNCHANGED <<html, hPc, jsonVars, themeVars, laterVars>>

\* re.exec returns null: the loop ends and the tokens are returned (line 372).
HtmlReturn ==
  /\ hPc = "loop"
  /\ HtmlMatchStarts(html, hIndex) = {}
  /\ hPc' = "done"
  /\ UNCHANGED <<html, hIndex, hTokens, jsonVars, themeVars, laterVars>>

NextHtml == HtmlExec \/ HtmlReturn

SpecHtml == InitHtml /\ [][NextHtml]_vars

----------------------------------------------------------------------------
(* tokenizeJson as a state machine.                                        *)

InitJson ==
  /\ json \in JsonInputs
  /\ jLast = 0
  /\ jTokens = <<>>
  /\ jPc = "loop"
  /\ HtmlIdle
  /\ ThemeIdle
  /\ LaterIdle

\* re.exec finds a match (lines 267-287).
JsonExec ==
  /\ jPc = "loop"
  /\ JsonMatchStarts(json, jLast) # {}
  /\ LET i == Min(JsonMatchStarts(json, jLast))
         m == JsonMatchAt(json, i)
     IN /\ jTokens' = jTokens \o JsonGapBefore(json, jLast, i) \o JsonTokensFor(json, i, m)
        /\ jLast' = m.end
  /\ UNCHANGED <<json, jPc, htmlVars, themeVars, laterVars>>

\* re.exec returns null: the rest of the input is pushed and the tokens are
\* returned (lines 288-291).
JsonReturn ==
  /\ jPc = "loop"
  /\ JsonMatchStarts(json, jLast) = {}
  /\ jTokens' = jTokens \o JsonTail(json, jLast)
  /\ jPc' = "done"
  /\ UNCHANGED <<json, jLast, htmlVars, themeVars, laterVars>>

NextJson == JsonExec \/ JsonReturn

SpecJson == InitJson /\ [][NextJson]_vars

----------------------------------------------------------------------------
(* getThemeTokenColors as a state machine: one step per synchronous run    *)
(* between two awaits.                                                     *)

InitTheme ==
  /\ kind \in ThemeKinds
  /\ themeName \in ThemeNames
  /\ fs \in FileSystems(LookupTheme(themeName))
  /\ tPc = "start"
  /\ defaults = NoColors
  /\ stack = <<>>
  /\ cur = NoUri
  /\ ret = <<>>
  /\ rules = <<>>
  /\ result = NoColors
  /\ HtmlIdle
  /\ JsonIdle
  /\ LaterIdle

\* lines 207-239: the palette is chosen, the theme file looked up, and
\* resolveTokenColors is called; without a theme name or file the palette is
\* returned.
GetColorsStart ==
  /\ tPc = "start"
  /\ defaults' = DefaultsFor(kind)
  /\ IF ~Truthy(themeName) \/ LookupTheme(themeName) = NoUri
     THEN /\ result' = DefaultsFor(kind)
          /\ tPc' = "done"
          /\ cur' = cur
     ELSE /\ cur' = LookupTheme(themeName)
          /\ tPc' = "read"
          /\ result' = result
  /\ UNCHANGED <<kind, themeName, fs, stack, ret, rules, htmlVars, jsonVars, laterVars>>

\* lines 125-136 and 144-146: readThemeFile(cur) settles. A failure makes the
\* frame return []; a theme with an include calls resolveTokenColors on it;
\* a theme without one returns its own rules.
ResolveRead ==
  /\ tPc = "read"
  /\ LET doc == fs[cur]
     IN IF ~doc.readable
        THEN /\ stack' = OnReadFailure(stack).stack
             /\ ret' = OnReadFailure(stack).ret
             /\ tPc' = "return"
             /\ cur' = NoUri
        ELSE IF doc.include # NoUri
        THEN /\ Len(stack) < MaxDepth
             /\ stack' = Append(stack, cur)
             /\ cur' = doc.include
             /\ UNCHANGED <<ret, tPc>>
        ELSE /\ ret' = Overlay(<<>>, doc)
             /\ tPc' = "return"
             /\ cur' = NoUri
             /\ stack' = stack
  /\ UNCHANGED <<kind, themeName, fs, defaults, rules, result, htmlVars, jsonVars, laterVars>>

\* lines 134-143 and 239: a frame's value reaches its caller, which appends
\* its own tokenColors and returns; the outermost value becomes rules.
ResolveReturn ==
  /\ tPc = "return"
  /\ IF stack = <<>>
     THEN /\ rules' = ret
          /\ tPc' = "build"
          /\ UNCHANGED <<ret, stack>>
     ELSE /\ ret' = Overlay(ret, fs[stack[Len(stack)]])
          /\ stack' = SubSeq(stack, 1, Len(stack) - 1)
          /\ UNCHANGED <<rules, tPc>>
  /\ UNCHANGED <<kind, themeName, fs, defaults, cur, result, htmlVars, jsonVars, laterVars>>

\* lines 240-251: the color map is built and returned.
GetColorsBuild ==
  /\ tPc = "build"
  /\ result' = BuildColors(defaults, rules)
  /\ tPc' = "done"
  /\ UNCHANGED <<kind, themeName, fs, defaults, stack, cur, ret, rules, htmlVars, jsonVars, laterVars>>

NextTheme == GetColorsStart \/ ResolveRead \/ ResolveReturn \/ GetColorsBuild

SpecTheme == InitTheme /\ [][NextTheme]_vars

\* getThemeTokenColors from line 239 on, for a flattened rule list of lists:
\* the theme file holds the rules and includes nothing.
InitBuild(lists) ==
  /\ kind \in ThemeKinds
  /\ themeName = "solar"
  /\ rules \in lists
  /\ fs = [u \in Uris |-> IF u = LookupTheme("solar")
                           THEN Doc(TRUE, NoUri, TRUE, rules) ELSE UnreadableDoc]
  /\ tPc = "build"
  /\ defaults = DefaultsFor(kind)
  /\ stack = <<>>
  /\ cur = NoUri
  /\ ret = rules
  /\ result = NoColors
  /\ HtmlIdle
  /\ JsonIdle
  /\ LaterIdle

InitColors == InitBuild(RuleLists)

NextColors == GetColorsBuild

SpecColors == InitColors /\ [][NextColors]_vars

----------------------------------------------------------------------------
(* Properties of the tokenizers.                                           *)

\* C1: when tokenizeHtml returns, the token texts concatenated in emission
\* order are the input: no character is dropped, duplicated or reordered.
C1_HtmlRoundTrip == hPc = "done" => Concat(hTokens) = html

\* C2: when tokenizeJson returns, the token texts concatenated in emission
\* order are the input; while it runs they are the input up to lastIndex, the
\* text skipped before a match being one gap token.
C2_JsonRoundTrip ==
  /\ jPc = "loop" => Concat(jTokens) = Slice(json, 0, jLast)
  /\ jPc = "done" => Concat(jTokens) = json

\* C2's case: a gap between two matches and a gap after the last match.
C2_Witness ==
  /\ jPc = "done"
  /\ Len(jTokens) >= 4
  /\ jTokens[Len(jTokens)].type = "ws"
  /\ \E k \in 2..(Len(jTokens) - 2) :
       /\ jTokens[k].type = "ws"
       /\ jTokens[k - 1].type # "ws"
       /\ jTokens[k + 1].type # "ws"

----------------------------------------------------------------------------
(* Properties of the theme pipeline.                                       *)

\* The theme file getThemeTokenColors starts from.
Root == LookupTheme(themeName)
Located == Truthy(themeName) /\ Root # NoUri

RECURSIVE ChainFrom(_, _, _)
\* The include chain from u: the files in the order a resolution first meets
\* them, ending at a file without include, an unreadable file, or before a
\* file met already.
ChainFrom(f, u, seen) ==
  IF u = NoUri \/ u \in seen THEN <<>>
  ELSE IF ~f[u].readable THEN <<u>>
  ELSE <<u>> \o ChainFrom(f, f[u].include, seen \cup {u})

Chain == ChainFrom(fs, Root, {})
ChainLast == fs[Chain[Len(Chain)]]
\* The chain leads back into itself.
ChainCyclic == Chain # <<>> /\ ChainLast.readable /\ ChainLast.include # NoUri
\* The chain ends at a file that cannot be read or parsed.
ChainBroken == Chain # <<>> /\ ~ChainLast.readable
ChainAllRead == Chain # <<>> /\ ~ChainCyclic /\ ~ChainBroken

\* The tokenColors array of a file that was read, [] otherwise.
Contribution(doc) ==
  IF doc.readable /\ doc.hasTokenColors THEN doc.tokenColors ELSE <<>>

RECURSIVE BaseFirst(_, _)
\* The rules of the files of chain c, the most distant ancestor's first.
BaseFirst(f, c) ==
  IF c = <<>> THEN <<>> ELSE BaseFirst(f, Tail(c)) \o Contribution(f[Head(c)])

\* The frames of resolveTokenColors in flight, outermost first.
Frames == stack \o (IF cur = NoUri THEN <<>> ELSE <<cur>>)

\* C3: a resolution stops at the repeat of an include chain that leads back
\* into itself: it never has two frames for the same file, so its hops are
\* bounded by the number of files.
C3_CycleTerminates ==
  \A i, j \in DOMAIN Frames : i # j => Frames[i] # Frames[j]

\* C4: the color map returned has all ten slots, each a defined, non-empty
\* string.
C4_AllSlotsPopulated ==
  tPc = "done" =>
    /\ DOMAIN result = SlotSet
    /\ \A slot \in SlotSet : result[slot] # Undefined /\ result[slot] # ""

\* b is a dot- or space-delimited descendant of a.
IsDescendant(a, b) ==
  /\ Len(b) > Len(a)
  /\ SubSeq(b, 1, Len(a)) = a
  /\ b[Len(a) + 1] \in {".", " "}

SelectorMatches(r, c) == r = c \/ IsDescendant(r, c) \/ IsDescendant(c, r)

\* The selectors of a rule: the entries of its scope array, or the
\* comma-separated parts of its scope string, without the whitespace around.
Selectors(rule) == {Trim(RuleScopes(rule)[k]) : k \in DOMAIN RuleScopes(rule)}

\* The lengths of rule i's selectors that match a candidate scope of slot;
\* none for a rule without a foreground.
MatchLens(rs, slot, i) ==
  IF rs[i].fg = Undefined \/ rs[i].fg = "" THEN {}
  ELSE {Len(t) : t \in {x \in Selectors(rs[i]) :
                          \E c \in Range(ScopesOf(slot)) : SelectorMatches(x, c)}}

AllMatchLens(rs, slot) == UNION {MatchLens(rs, slot, i) : i \in DOMAIN rs}

\* The rules that match slot with a selector of the greatest matching length;
\* none when no rule matches.
Winners(rs, slot) ==
  LET lens == [i \in DOMAIN rs |-> MatchLens(rs, slot, i)]
      all  == UNION {lens[i] : i \in DOMAIN rs}
      best == Max(all)
  IN IF all = {} THEN {} ELSE {i \in DOMAIN rs : best \in lens[i]}

\* C4's case: a matching rule has an empty foreground, another rule supplies
\* a color.
C4_Witness ==
  /\ tPc = "done"
  /\ \E i \in DOMAIN rules : rules[i].fg = "" /\ rules[i].scope.items = <<SelStringHtml>>
  /\ result # defaults

\* C6: for each slot some rule matches, the color is that of a matching rule
\* whose selector is longest, wherever the rule stands in the list.
C6_LongestSelectorWins ==
  tPc = "done" =>
    \A slot \in SlotSet :
      LET w == Winners(rules, slot)
      IN w # {} => \E i \in w : result[slot] = rules[i].fg

\* C6's case: a longer matching selector stands after a shorter one with
\* another color, and wins.
C6_Witness ==
  /\ tPc = "done"
  /\ \E i, j \in DOMAIN rules :
       /\ i < j
       /\ MatchLens(rules, "string", i) # {}
       /\ j \in Winners(rules, "string")
       /\ i \notin Winners(rules, "string")
       /\ rules[i].fg # rules[j].fg
       /\ result["string"] = rules[j].fg

PaletteOf(k) ==
  IF k \in {"Light", "HighContrastLight"} THEN LIGHT_DEFAULTS ELSE DARK_DEFAULTS

\* No rule can come out of the resolution: no theme name, no theme file, or
\* every file of the chain is unreadable, has no tokenColors or has none.
NoRulesInput ==
  \/ ~Located
  \/ \A k \in DOMAIN Chain : Contribution(fs[Chain[k]]) = <<>>

\* C5: when the resolution yields no rule, the map returned is the light
\* palette for the kinds Light and HighContrastLight and the dark one
\* otherwise, in all ten slots.
C5_DefaultsWhenNoRules ==
  (tPc = "done" /\ NoRulesInput) => result = PaletteOf(kind)

\* C5's case: a theme file that is read and has no tokenColors, under a
\* high-contrast light theme.
C5_Witness ==
  /\ tPc = "done"
  /\ Located
  /\ fs[Root].readable
  /\ ~fs[Root].hasTokenColors
  /\ NoRulesInput
  /\ kind = "HighContrastLight"
  /\ result = LIGHT_DEFAULTS

\* The greatest length at which a rule of file u matches slot, -1 if none.
DocBestLen(u, slot) ==
  LET rs == Contribution(fs[u])
  IN IF AllMatchLens(rs, slot) = {} THEN -1 ELSE Max(AllMatchLens(rs, slot))

\* C8: when files of the chain match a slot with selectors of the same,
\* greatest length, the color is that of a rule of the most descendant of
\* them.
C8_DescendantPreferred ==
  (tPc = "done" /\ Located /\ ChainAllRead) =>
    \A slot \in SlotSet :
      LET best == Max({DocBestLen(Chain[k], slot) : k \in DOMAIN Chain})
          d    == Min({k \in DOMAIN Chain : DocBestLen(Chain[k], slot) = best})
          rs   == Contribution(fs[Chain[d]])
      IN best # -1 => \E i \in Winners(rs, slot) : result[slot] = rs[i].fg

\* C9: the flattened list is the rules of the files of the chain, the most
\* distant ancestor's first and the theme's own last, each file's in order.
C9_BaseFirst ==
  (tPc \in {"build", "done"} /\ Located /\ ChainAllRead) =>
    rules = BaseFirst(fs, Chain)

\* C9's case: a chain of three files with different, non-empty rules.
C9_Witness ==
  /\ tPc = "done"
  /\ Located
  /\ ChainAllRead
  /\ Len(Chain) = 3
  /\ \A k \in DOMAIN Chain : Contribution(fs[Chain[k]]) # <<>>
  /\ \A k, l \in DOMAIN Chain :
       k # l => Contribution(fs[Chain[k]]) # Contribution(fs[Chain[l]])

\* C10: when a file of the chain cannot be read or parsed, it adds no rule,
\* the resolution goes on to its end, and the flattened list holds the rules
\* of every file that was read.
C10_UnreadableAddsNothing ==
  (Located /\ ChainBroken) =>
    /\ tPc # "done" => ENABLED NextTheme
    /\ tPc \in {"build", "done"} =>
         rules = BaseFirst(fs, SubSeq(Chain, 1, Len(Chain) - 1))

\* C10's case: the theme and its include are read, the include's include is
\* not; both files' rules are in the list.
C10_Witness ==
  /\ tPc = "done"
  /\ Located
  /\ ChainBroken
  /\ Len(Chain) = 3
  /\ Contribution(fs[Chain[1]]) # <<>>
  /\ Contribution(fs[Chain[2]]) # <<>>
  /\ Len(rules) = Len(Contribution(fs[Chain[1]])) + Len(Contribution(fs[Chain[2]]))
  /\ result # defaults

----------------------------------------------------------------------------
(* The matching rule of findColor, one rule at a time.                     *)

\* 'string.quoted.single'
SelStringQuotedSingle == <<"s","t","r","i","n","g",".","q","u","o","t","e","d",".","s","i","n","g","l","e">>
\* 'string quoted'
SelStringSpQuoted == <<"s","t","r","i","n","g"," ","q","u","o","t","e","d">>
\* 'meta.attribute'
SelMetaAttribute == <<"m","e","t","a",".","a","t","t","r","i","b","u","t","e">>
\* 'strings'
SelStrings == <<"s","t","r","i","n","g","s">>
\* 'string-quoted'
SelStringDashQuoted == <<"s","t","r","i","n","g","-","q","u","o","t","e","d">>
\* 'quoted'
SelQuoted == <<"q","u","o","t","e","d">>
\* 'xml'
SelXml == <<"x","m","l">>
\* 'meta'
SelMeta == <<"m","e","t","a">>

\* The selectors of the one-rule lists: equal to a candidate, ancestors and
\* descendants of candidates by '.' and by ' ', undelimited prefixes both
\* ways, unrelated ones, a padded one and the empty one.
MatchSelectors ==
  { SelString, SelStringQuoted, SelStringQuotedSingle, SelStringSpQuoted,
    SelMetaAttribute, SelMeta, SelStr, SelStrings, SelStringDashQuoted,
    SelQuoted, SelXml, SelStringPadded, <<>> }

MatchForegrounds == {ColorA, "", Undefined}

\* getThemeTokenColors from line 239 on, for a list of one rule.
InitMatch ==
  InitBuild({<<Rule(ArrayScope(<<s>>), fg)>> : s \in MatchSelectors, fg \in MatchForegrounds})

NextMatch == GetColorsBuild

SpecMatch == InitMatch /\ [][NextMatch]_vars

\* Rule i has a foreground and a selector that is a candidate scope of slot,
\* or a '.'- or ' '-delimited ancestor or descendant of one.
Supplies(rs, slot, i) == MatchLens(rs, slot, i) # {}

\* C11: the one rule of the list gives a slot its color exactly when it has a
\* foreground and its selector equals a candidate scope of the slot, or is a
\* '.'- or ' '-delimited ancestor or descendant of one; otherwise the slot
\* keeps its default.
C11_MatchingRule ==
  tPc = "done" =>
    \A slot \in SlotSet :
      result[slot] = IF Supplies(rules, slot, 1) THEN rules[1].fg ELSE defaults[slot]

\* C11's case: a selector that is only an undelimited prefix of the candidate
\* 'string' has a foreground and supplies no color.
C11_Witness ==
  /\ tPc = "done"
  /\ rules[1].fg = ColorA
  /\ rules[1].scope.items = <<SelStr>>
  /\ result = defaults

----------------------------------------------------------------------------
(* The order of a slot's candidate scopes.                                 *)

\* The rules of RulePool and two that match a space-delimited candidate.
OrderPool ==
  RulePool \cup { Rule(ArrayScope(<<SelMetaAttribute>>), ColorB),
                  Rule(ArrayScope(<<SelMeta>>), ColorC) }

MaxOrderRules == 2

InitOrder == InitBuild(UNION {[1..n -> OrderPool] : n \in 0..MaxOrderRules})

NextOrder == GetColorsBuild

SpecOrder == InitOrder /\ [][NextOrder]_vars

\* The orderings of a sequence.
Orderings(s) == {[i \in DOMAIN s |-> s[p[i]]] : p \in Permutations(DOMAIN s)}

\* C12: for every slot and every ordering of its candidate scopes, findColor
\* gives the color it gives for the order of SCOPE_MAP.
C12_CandidateOrderIrrelevant ==
  tPc = "done" =>
    \A slot \in SlotSet :
      \A scopes \in Orderings(ScopesOf(slot)) :
        SlotColor(defaults[slot], findColor(scopes, rules)) = result[slot]

\* C12's case: the rule that gives the slot its color matches the last
\* candidate scope only, and a rule before it matches the first candidate.
C12_Witness ==
  /\ tPc = "done"
  /\ Len(rules) = 2
  /\ rules[1] = Rule(ArrayScope(<<SelStringPadded>>), ColorC)
  /\ rules[2] = Rule(ArrayScope(<<SelStringRegexp>>), ColorA)
  /\ ~SelectorMatches(SelStringRegexp, ScopesOf("string")[1])
  /\ SelectorMatches(SelString, ScopesOf("string")[1])
  /\ result["string"] = ColorA

----------------------------------------------------------------------------
(* getThemeTokenColors called again and again, the calls overlapping: the  *)
(* theme kind, the theme name and the rules resolveTokenColors gives are   *)
(* the same for every call.                                                *)

\* ResultObject that builds the map in the palette itself.
MutResultAliasesDefaults(p, ref) == ref

\* line 243: `{ ...defaults }` is a new object, here the one of call p
ResultObject(p, ref) == <<"result", p>>

InitRebuild ==
  /\ kind \in ThemeKinds
  /\ themeName \in ThemeNames
  /\ rules \in IF LookupTheme(themeName) = NoUri THEN {<<>>} ELSE TokenColorsPool
  /\ fs = [u \in Uris |-> IF u = LookupTheme(themeName)
                           THEN Doc(TRUE, NoUri, TRUE, rules) ELSE UnreadableDoc]
  /\ tPc = "idle"
  /\ defaults = NoColors
  /\ stack = <<>>
  /\ cur = NoUri
  /\ ret = <<>>
  /\ result = NoColors
  /\ HtmlIdle
  /\ JsonIdle
  /\ RebuildIdle
  /\ EnvIdle
  /\ SendIdle
  /\ StoreIdle
  /\ PanelIdle

\* lines 207-239: a call chooses its palette and returns it when there is no
\* theme name or no theme file; otherwise it awaits resolveTokenColors.
RebuildStart(p) ==
  /\ rb[p].pc \in {"idle", "done"}
  /\ LET ref == IF DefaultsFor(kind) = LIGHT_DEFAULTS THEN LightRef ELSE DarkRef
     IN IF ~Truthy(themeName) \/ LookupTheme(themeName) = NoUri
        THEN /\ rb' = [rb EXCEPT ![p] = [pc |-> "done", defaults |-> ref, result |-> ref]]
             /\ maps' = maps \cup {heap[ref]}
        ELSE /\ rb' = [rb EXCEPT ![p] = [pc |-> "await", defaults |-> ref, result |-> ref]]
             /\ maps' = maps
  /\ UNCHANGED <<heap, themeCalls, htmlVars, jsonVars, themeVars, envVars, sendVars,
                 storeVars, panelVars>>

\* lines 239-251: resolveTokenColors has settled; without rules the palette is
\* returned, otherwise the map is built in the object of line 243.
RebuildBuild(p) ==
  /\ rb[p].pc = "await"
  /\ LET ref == rb[p].defaults
         obj == IF Len(rules) = 0 THEN ref ELSE ResultObject(p, ref)
     IN /\ heap' = [heap EXCEPT ![obj] = BuildColors(heap[ref], rules)]
        /\ rb' = [rb EXCEPT ![p] = [pc |-> "done", defaults |-> ref, result |-> obj]]
        /\ maps' = maps \cup {heap'[obj]}
  /\ UNCHANGED <<themeCalls, htmlVars, jsonVars, themeVars, envVars, sendVars, storeVars,
                 panelVars>>

NextRebuild == \E p \in Rebuilders : RebuildStart(p) \/ RebuildBuild(p)

SpecRebuild == InitRebuild /\ [][NextRebuild]_vars

\* C13: the two palettes are never modified, every call returns the same map,
\* and the map a call has returned stays the one it returned whatever the
\* other calls do.
C13_RebuildIdempotent ==
  /\ heap[DarkRef] = DARK_DEFAULTS
  /\ heap[LightRef] = LIGHT_DEFAULTS
  /\ Cardinality(maps) <= 1
  /\ \A p \in Rebuilders : rb[p].pc = "done" => heap[rb[p].result] \in maps

\* C13's case: a call has built a map that differs from the palette, and
\* another call is past its start while the first has returned.
C13_Witness ==
  /\ \E p, q \in Rebuilders :
       /\ p # q
       /\ rb[p].pc = "done"
       /\ rb[q].pc = "done"
       /\ rb[p].result # rb[q].result
       /\ heap[rb[p].result] # heap[rb[p].defaults]
       /\ heap[rb[q].result] = heap[rb[p].result]

----------------------------------------------------------------------------
(* The tokens of one tag span.                                             *)

\* The match the top-level scan takes next, from re.lastIndex on.
NextSpan ==
  LET i == Min(HtmlMatchStarts(html, hIndex))
  IN Slice(html, i, HtmlMatchEnd(html, i))

\* A match of the third alternative of the top-level pattern: a tag.
IsTagSpan(span) == StartsWith(span, <<LT>>) /\ ~StartsWith(span, <<LT, "!">>)

\* C14: the tokens one iteration pushes for a tag span, concatenated, are the
\* span: its decomposition into markers, name and attribute tokens, or the
\* span itself as one tag token.
C14_TagSpanCovered ==
  [][(hPc = "loop" /\ HtmlMatchStarts(html, hIndex) # {} /\ IsTagSpan(NextSpan))
       => Concat(SubSeq(hTokens', Len(hTokens) + 1, Len(hTokens'))) = NextSpan]_vars

----------------------------------------------------------------------------
(* Keys and strings of tokenizeJson.                                       *)

\* The backslashes that stand in a row just before offset j, from offset i on.
BackslashesBefore(s, i, j) ==
  Cardinality({k \in i..(j - 1) : \A m \in k..(j - 1) : At(s, m) = "\\"})

\* The offset after the quote that closes the string opened at offset i: the
\* first quote with an even number of backslashes before it; -1 without one.
ClosingQuoteEnd(s, i) ==
  LET qs == {k \in (i + 1)..(Len(s) - 1) :
               At(s, k) = "\"" /\ BackslashesBefore(s, i + 1, k) % 2 = 0}
  IN IF qs = {} THEN -1 ELSE Min(qs) + 1

\* The tokens the iteration pushes after its gap token.
Pushed(old, new, gap) == SubSeq(new, Len(old) + Len(gap) + 1, Len(new))

\* C15: an iteration whose match starts with a quote pushes the string up to
\* its closing quote, an escaped quote not being one: as a key token followed
\* by a punct token of the whitespace and the colon when a colon follows the
\* string, as one string token otherwise.
C15_KeyAndString ==
  [][(jPc = "loop" /\ JsonMatchStarts(json, jLast) # {}
        /\ At(json, Min(JsonMatchStarts(json, jLast))) = "\"")
       => LET i == Min(JsonMatchStarts(json, jLast))
              q == ClosingQuoteEnd(json, i)
              c == RunEnd(json, q, SpaceChar)
              new == Pushed(jTokens, jTokens', JsonGapBefore(json, jLast, i))
          IN /\ q # -1
             /\ IF At(json, c) = ":"
                THEN new = <<Tok("key", Slice(json, i, q)),
                             Tok("punct", Slice(json, q, c + 1))>>
                ELSE new = <<Tok("string", Slice(json, i, q))>>]_vars

\* C15's case: a key that holds an escaped quote, with whitespace before its
\* colon.
C15_Witness ==
  /\ jPc = "done"
  /\ \E k \in 1..(Len(jTokens) - 1) :
       /\ jTokens[k] = Tok("key", <<"\"", "\\", "\"", "\"">>)
       /\ jTokens[k + 1] = Tok("punct", <<" ", ":">>)

----------------------------------------------------------------------------
(* envSubstitute (src/api/requester.ts)                                    *)

\* /\{\{(\w+)\}\}/ at offset i: the end of the match, or -1. Group 1 is the
\* text between the braces.
PlaceholderEnd(s, i) ==
  LET n == RunEnd(s, i + 2, WordChar)
  IN IF StartsWithAt(s, i, <<"{", "{">>) /\ n > i + 2 /\ StartsWithAt(s, n, <<"}", "}">>)
     THEN n + 2 ELSE -1

RECURSIVE PlaceholderMatches(_, _)
\* The matches String.prototype.replace visits with the g flag, from offset
\* `from` on: leftmost first, none overlapping.
PlaceholderMatches(s, from) ==
  LET starts == {i \in from..(Len(s) - 1) : PlaceholderEnd(s, i) # -1}
      i == Min(starts)
  IN IF starts = {} THEN <<>>
     ELSE <<[start |-> i, end |-> PlaceholderEnd(s, i)]>>
            \o PlaceholderMatches(s, PlaceholderEnd(s, i))

\* `key` of the callback: group 1 of match m
KeyOf(s, m) == Slice(s, m.start + 2, m.end - 2)

\* Properties every object literal and every JSON.parse result inherits from
\* Object.prototype, and the string a function value becomes in replace().
NameValueOf == <<"v","a","l","u","e","O","f">>
NameToString == <<"t","o","S","t","r","i","n","g">>
ObjectPrototypeKeys == {NameValueOf, NameToString}
NativeCode(key) ==
  <<"f","u","n","c","t","i","o","n"," ">> \o key \o <<"(",")"," ","{"," ","[","n","a","t","i","v","e"," ","c","o","d","e","]"," ","}">>

\* line 26: `key in env` is true for own and for inherited properties
KeyIn(env, key) == key \in DOMAIN env \/ key \in ObjectPrototypeKeys

\* line 27: env[key], as replace() inserts it
Lookup(env, key) == IF key \in DOMAIN env THEN env[key] ELSE NativeCode(key)

\* The text String.prototype.replace builds from the replacements repl of
\* the matches ms.
Replaced(s, ms, repl) ==
  Flatten([k \in DOMAIN ms |->
             Slice(s, IF k = 1 THEN 0 ELSE ms[k - 1].end, ms[k].start) \o repl[k]])
    \o Slice(s, IF ms = <<>> THEN 0 ELSE ms[Len(ms)].end, Len(s))

\* lines 20-33
envSubstitute(input, env) ==
  LET ms   == PlaceholderMatches(input, 0)
      keys == [k \in DOMAIN ms |-> KeyOf(input, ms[k])]
      repl == [k \in DOMAIN ms |->
                 IF KeyIn(env, keys[k]) THEN Lookup(env, keys[k])
                 ELSE Slice(input, ms[k].start, ms[k].end)]
  IN [result |-> Replaced(input, ms, repl),
      missingVars |-> SelectSeq(keys, LAMBDA key : ~KeyIn(env, key))]

\* The fragments an input of envSubstitute is made of, and the environments.
MaxEnvPieces == 3

PhA == <<"{","{","a","}","}">>
PhB == <<"{","{","b","}","}">>
PhValueOf == <<"{","{","v","a","l","u","e","O","f","}","}">>

EnvPieces ==
  { <<"{">>, <<"}">>, <<"a">>, <<"-">>, <<"{", "{">>, <<"}", "}">>, PhA, PhB, PhValueOf }

EnvInputs == Concats(EnvPieces, MaxEnvPieces)

EnvPool ==
  { EmptyObject,
    (<<"a">> :> <<"x">>),
    (<<"a">> :> <<>>),
    (<<"a">> :> PhB @@ <<"b">> :> <<"x">>),
    (<<"b">> :> <<"x", "-">>) }

InitEnv ==
  /\ esInput \in EnvInputs
  /\ esEnv \in EnvPool
  /\ esResult = <<>>
  /\ esMissing = <<>>
  /\ esPc = "call"
  /\ HtmlIdle
  /\ JsonIdle
  /\ ThemeIdle
  /\ RebuildIdle
  /\ SendIdle
  /\ StoreIdle
  /\ PanelIdle

\* lines 20-33: envSubstitute runs and returns.
EnvSubstitute ==
  /\ esPc = "call"
  /\ esResult' = envSubstitute(esInput, esEnv).result
  /\ esMissing' = envSubstitute(esInput, esEnv).missingVars
  /\ esPc' = "done"
  /\ UNCHANGED <<esInput, esEnv, htmlVars, jsonVars, themeVars, rebuildVars, sendVars, storeVars, panelVars>>

NextEnv == EnvSubstitute

SpecEnv == InitEnv /\ [][NextEnv]_vars

\* The {{name}} placeholders of the input, in order of occurrence.
Placeholders == PlaceholderMatches(esInput, 0)
PlaceholderNames == [k \in DOMAIN Placeholders |-> KeyOf(esInput, Placeholders[k])]

\* name is a variable defined in env.
Defined(env, name) == name \in DOMAIN env

\* C16: the result is the input with each placeholder of a variable defined
\* in env replaced by its value, the other placeholders and the text between
\* placeholders as they are.
C16_Substitutes ==
  esPc = "done" =>
    esResult = Replaced(esInput, Placeholders,
                 [k \in DOMAIN Placeholders |->
                    IF Defined(esEnv, PlaceholderNames[k]) THEN esEnv[PlaceholderNames[k]]
                    ELSE Slice(esInput, Placeholders[k].start, Placeholders[k].end)])

\* s is t with some entries left out.
IsSubsequence(s, t) ==
  \E f \in [DOMAIN s -> DOMAIN t] :
    /\ \A i, j \in DOMAIN s : i < j => f[i] < f[j]
    /\ \A i \in DOMAIN s : s[i] = t[f[i]]

\* C17: missingVars holds exactly the names of the placeholders whose variable
\* is not defined in env, in their order of occurrence.
C17_MissingVars ==
  esPc = "done" =>
    /\ Range(esMissing) = {PlaceholderNames[k] : k \in {j \in DOMAIN Placeholders :
                                                         ~Defined(esEnv, PlaceholderNames[j])}}
    /\ IsSubsequence(esMissing, PlaceholderNames)

----------------------------------------------------------------------------
(* applyEnv and sendRequest (src/api/requester.ts)                         *)

RECURSIVE Dedupe(_)
\* [...new Set(allMissing)]: the first occurrence of each name is kept
Dedupe(names) ==
  IF names = <<>> THEN <<>>
  ELSE LET front == Dedupe(SubSeq(names, 1, Len(names) - 1))
           last  == names[Len(names)]
       IN IF last \in Range(front) THEN front ELSE Append(front, last)

\* The header names of the requests modelled, in Object.entries order.
HeaderNames == <<"Content-Type", "content-type", "X-Token">>
HeaderOrder(h) == SelectSeq(HeaderNames, LAMBDA n : n \in DOMAIN h)

\* lines 49-67: the resolved request and the missing variables, given the
\* substitutions u of the url, h of each header and b of the body.
Resolved(request, env, u, h, b) ==
  LET hs  == HeaderOrder(request.headers.values)
      hasBody == request.body.present /\ request.body.text # <<>>
      allMissing ==
        u.missingVars
          \o Flatten([k \in DOMAIN hs |-> h[hs[k]].missingVars])
          \o (IF hasBody THEN b.missingVars ELSE <<>>)
  IN [resolved |->
        [url |-> u.result,
         headers |-> IF request.headers.present
                     THEN Object([n \in DOMAIN h |-> h[n].result])
                     ELSE NoObject,
         body |-> IF hasBody THEN Text(b.result) ELSE request.body],
      missingVars |-> Dedupe(allMissing)]

\* lines 38-68
applyEnv(request, env) ==
  IF ~env.present
  THEN [resolved |-> request, missingVars |-> <<>>]
  ELSE Resolved(request, env,
                envSubstitute(request.url, env.values),
                [n \in DOMAIN request.headers.values |->
                   envSubstitute(request.headers.values[n], env.values)],
                envSubstitute(request.body.text, env.values))

\* line 80: new URL(s) without a base throws unless s starts with a scheme,
\* a letter followed by letters, digits, '+', '-' or '.', and a colon.
UrlParses(s) ==
  \E n \in 1..(Len(s) - 1) :
    /\ At(s, 0) \in Letter
    /\ \A k \in 1..(n - 1) : At(s, k) \in Letter \cup Digit \cup {"+", "-", "."}
    /\ At(s, n) = ":"

RECURSIVE UrlHref(_)
\* The serialised URL that lib.request is given: '{' and '}' of the path are
\* percent-encoded.
UrlHref(s) ==
  IF s = <<>> THEN <<>>
  ELSE (IF Head(s) = "{" THEN <<"%", "7", "B">>
        ELSE IF Head(s) = "}" THEN <<"%", "7", "D">>
        ELSE <<Head(s)>>) \o UrlHref(Tail(s))

\* lines 84-87: the headers sent
SentHeaders(resolved) ==
  LET h == resolved.headers.values
      hasBody == resolved.body.present /\ resolved.body.text # <<>>
      has(n) == n \in DOMAIN h /\ h[n] # <<>>
  IN IF hasBody /\ ~has("Content-Type") /\ ~has("content-type")
     THEN [n \in DOMAIN h \cup {"Content-Type"} |->
             IF n = "Content-Type" THEN <<"a","p","p","l","i","c","a","t","i","o","n","/","j","s","o","n">> ELSE h[n]]
     ELSE h

\* The requests and environments modelled.
UrlBase == <<"h","t","t","p",":","/","/","h">>
SendUrls ==
  { UrlBase \o <<"/", "x">>, UrlBase \o <<"/">> \o PhA, PhB \o <<"/", "x">>,
    PhB \o <<"/">> \o PhA, <<"x">> }
SendHeaders ==
  { NoObject, Object("X-Token" :> PhA), Object("content-type" :> <<"t">>) }
SendBodies == { NoText, Text(<<>>), Text(PhA), Text(<<"z">>) }
SendRequests ==
  [url : SendUrls, headers : SendHeaders, body : SendBodies]
SendEnvs ==
  { NoObject, Object(EmptyObject), Object(<<"b">> :> UrlBase),
    Object(<<"a">> :> <<"1">>), Object(<<"a">> :> <<"1">> @@ <<"b">> :> UrlBase) }

InitSend ==
  /\ sRequest \in SendRequests
  /\ sEnv \in SendEnvs
  /\ sPc = "start"
  /\ sMissing = <<>>
  /\ sWire = NoWire
  /\ sOutcome = "pending"
  /\ sRes = NoResponse
  /\ HtmlIdle
  /\ JsonIdle
  /\ ThemeIdle
  /\ RebuildIdle
  /\ EnvIdle
  /\ StoreIdle
  /\ PanelIdle

\* lines 78-111: what sendRequest does with the outcome a of applyEnv.
Written(a) ==
  /\ sMissing' = a.missingVars
  /\ IF ~UrlParses(a.resolved.url)
     THEN /\ sOutcome' = "rejected: Invalid URL"
          /\ sPc' = "done"
          /\ sWire' = sWire
     ELSE /\ sWire' = [sent |-> TRUE, url |-> UrlHref(a.resolved.url),
                       headers |-> SentHeaders(a.resolved),
                       body |-> IF a.resolved.body.present
                                THEN a.resolved.body.text ELSE <<>>]
          /\ sPc' = "waiting"
          /\ sOutcome' = sOutcome

\* lines 78-162: the synchronous part of sendRequest. applyEnv resolves the
\* request; new URL throws on a string without a scheme, which rejects the
\* promise; otherwise the request is written and ended.
SendStart ==
  /\ sPc = "start"
  /\ Written(applyEnv(sRequest, sEnv))
  /\ UNCHANGED <<sRequest, sEnv, sRes, htmlVars, jsonVars, themeVars, rebuildVars, envVars,
                 storeVars, panelVars>>

\* The chunks a response may arrive in: chunk n of the response, by its
\* length in bytes.
MaxChunks == 3
ChunkLengths == {1, 524288, 1048575, MAX_BODY_SIZE, MAX_BODY_SIZE + 1}

\* lines 99-102: the response callback runs with its three locals.
SendResponse ==
  /\ sPc = "waiting"
  /\ sPc' = "receiving"
  /\ sRes' = NoResponse
  /\ UNCHANGED <<sRequest, sEnv, sMissing, sWire, sOutcome, htmlVars, jsonVars,
                 themeVars, rebuildVars, envVars, storeVars, panelVars>>

\* lines 105-110: whether the chunk that brings the total to totalSize is kept
Keeps(totalSize) == totalSize <= MAX_BODY_SIZE

\* The 'data' handler with totalSize counting only the chunks kept.
MutOnDataCountsKept(res, chunk) ==
  LET total == res.totalSize + chunk.length
  IN [res EXCEPT !.received = Append(@, chunk),
                 !.totalSize = IF Keeps(total) THEN total ELSE @,
                 !.chunks = IF Keeps(total) THEN Append(@, chunk) ELSE @,
                 !.truncated = IF Keeps(total) THEN @ ELSE TRUE]

\* lines 104-111: the 'data' handler
OnData(res, chunk) ==
  LET total == res.totalSize + chunk.length
  IN [res EXCEPT !.received = Append(@, chunk),
                 !.totalSize = total,
                 !.chunks = IF Keeps(total) THEN Append(@, chunk) ELSE @,
                 !.truncated = IF Keeps(total) THEN @ ELSE TRUE]

SendData(length) ==
  /\ sPc = "receiving"
  /\ Len(sRes.received) < MaxChunks
  /\ sRes' = OnData(sRes, [n |-> Len(sRes.received) + 1, length |-> length])
  /\ UNCHANGED <<sRequest, sEnv, sPc, sMissing, sWire, sOutcome, htmlVars, jsonVars,
                 themeVars, rebuildVars, envVars, storeVars, panelVars>>

\* lines 113-144: the 'end' handler; bodyText is the kept chunks
\* concatenated, with the notice when truncated is set, and the promise
\* resolves with the result and missingVars.
SendResponseEnd ==
  /\ sPc = "receiving"
  /\ sRes' = [sRes EXCEPT !.ended = TRUE,
                          !.bodyText = [bytes |-> sRes.chunks, notice |-> sRes.truncated]]
  /\ sOutcome' = "resolved"
  /\ sPc' = "done"
  /\ UNCHANGED <<sRequest, sEnv, sMissing, sWire, htmlVars, jsonVars, themeVars,
                 rebuildVars, envVars, storeVars, panelVars>>

\* lines 146-156: the socket or the response fails, or the 30 s timeout
\* destroys the request; the promise rejects.
SendTransportError ==
  /\ sPc \in {"waiting", "receiving"}
  /\ sOutcome' = "rejected: transport"
  /\ sPc' = "done"
  /\ UNCHANGED <<sRequest, sEnv, sMissing, sWire, sRes, htmlVars, jsonVars, themeVars,
                 rebuildVars, envVars, storeVars, panelVars>>

NextSend ==
  \/ SendStart
  \/ SendResponse
  \/ \E length \in ChunkLengths : SendData(length)
  \/ SendResponseEnd
  \/ SendTransportError

SpecSend == InitSend /\ [][NextSend]_vars

\* The url of the request is one new URL accepts once the variables it
\* refers to are defined.
SendableWhenDefined ==
  \E e \in SendEnvs :
    /\ e.present
    /\ envSubstitute(sRequest.url, e.values).missingVars = <<>>
    /\ UrlParses(envSubstitute(sRequest.url, e.values).result)

\* C18: when the environment lacks a variable the request refers to,
\* sendRequest still writes the request, and its promise is rejected only by
\* a failure of the transport.
C18_MissingVarStillSent ==
  (sPc # "start" /\ sMissing # <<>> /\ SendableWhenDefined) =>
    /\ sWire.sent
    /\ sOutcome \in {"pending", "resolved", "rejected: transport"}

RECURSIVE Bytes(_)
\* The number of bytes in a sequence of chunks.
Bytes(cs) == IF cs = <<>> THEN 0 ELSE cs[1].length + Bytes(Tail(cs))

\* C21: while the response arrives, the bytes kept total at most 1,048,576
\* and are a prefix of the bytes received; the body text of the result is
\* the bytes kept, with the truncation notice exactly when more than
\* 1,048,576 bytes were received.
C21_KeptIsBoundedPrefix ==
  sPc \in {"receiving", "done"} =>
    /\ Bytes(sRes.chunks) <= 1048576
    /\ Len(sRes.chunks) <= Len(sRes.received)
    /\ sRes.chunks = SubSeq(sRes.received, 1, Len(sRes.chunks))
    /\ sRes.ended =>
         /\ sRes.bodyText.bytes = sRes.chunks
         /\ sRes.bodyText.notice <=> Bytes(sRes.received) > 1048576

\* A response has ended whose second chunk was dropped and whose third
\* chunk, which alone would have fitted after the first, was dropped too.
C21_Witness ==
  /\ sRes.ended
  /\ Len(sRes.received) = 3
  /\ Len(sRes.chunks) = 1
  /\ Bytes(sRes.chunks) + sRes.received[3].length <= 1048576
  /\ sRes.bodyText.notice

----------------------------------------------------------------------------
(* saveRequestToCollection (src/api/fileStore.ts)                          *)

\* String.prototype.endsWith
EndsWith(s, suffix) ==
  Len(s) >= Len(suffix) /\ SubSeq(s, Len(s) - Len(suffix) + 1, Len(s)) = suffix

\* lines 114-116: the file a collection name stands for
FileNameOf(collectionName) ==
  IF EndsWith(collectionName, JsonSuffix) THEN collectionName
  ELSE collectionName \o JsonSuffix

\* collectionName.replace(/\.json$/, "")
StripJson(collectionName) ==
  IF EndsWith(collectionName, JsonSuffix)
  THEN SubSeq(collectionName, 1, Len(collectionName) - Len(JsonSuffix))
  ELSE collectionName

\* lines 119-124: the collection read, or an empty one when the read or the
\* parse fails
ReadOrNew(file, collectionName) ==
  IF file.kind = "collection" THEN file
  ELSE CollectionFile(StripJson(collectionName), <<>>)

\* collection.requests.findIndex((r) => r.id === request.id), 1-based; 0 for
\* JavaScript's -1
FindIndex(requests, id) ==
  LET hits == {k \in DOMAIN requests : requests[k].id = id}
  IN IF hits = {} THEN 0 ELSE Min(hits)

\* lines 129 and 133: the caller's request, as the call stamps it
Stamped(request, now, found) ==
  IF found THEN [request EXCEPT !.updatedAt = now]
  ELSE [request EXCEPT !.updatedAt = now, !.createdAt = now]

\* Upsert that always appends.
MutUpsertAppends(requests, request, now) == Append(requests, Stamped(request, now, FALSE))

\* lines 126-135: upsert by id
Upsert(requests, request, now) ==
  LET idx == FindIndex(requests, request.id)
  IN IF idx >= 1 THEN [requests EXCEPT ![idx] = Stamped(request, now, TRUE)]
     ELSE Append(requests, Stamped(request, now, FALSE))

\* The collection names, requests and files modelled.
CollectionNames == {<<"c">>, FileC}
RequestIds == {"r1", "r3"}
RequestsToSave == {Request(id, n, 0, 0) : id \in RequestIds, n \in {"A", "B"}}
StoredA == Request("r1", "A", 1, 1)
StoredB == Request("r2", "A", 1, 1)
StoredDup == Request("r1", "B", 1, 1)
InitialCollections ==
  { MissingFile, InvalidFile,
    CollectionFile(<<"c">>, <<>>),
    CollectionFile(<<"c">>, <<StoredA>>),
    CollectionFile(<<"c">>, <<StoredA, StoredB>>),
    CollectionFile(<<"c">>, <<StoredB, StoredA>>),
    CollectionFile(<<"c">>, <<StoredA, StoredDup>>) }

\* The Date readings modelled: the files hold the stamp 1, the calls read
\* 2, 3, ...
MaxSaves == 2

InitSave ==
  /\ files \in [FileNames -> InitialCollections]
  /\ sv = [p \in Savers |-> NoSave]
  /\ svClock = 1
  /\ HtmlIdle
  /\ JsonIdle
  /\ ThemeIdle
  /\ RebuildIdle
  /\ EnvIdle
  /\ SendIdle
  /\ PanelIdle

\* lines 109-117: a call starts and awaits ensureRapiStructure and the read.
SaveStart(p, collectionName, request) ==
  /\ sv[p].pc \in {"idle", "done"}
  /\ svClock + Cardinality({q \in Savers : sv[q].pc = "read"}) <= MaxSaves
  /\ sv' = [sv EXCEPT ![p] = [pc |-> "read", collectionName |-> collectionName,
                              request |-> request, collection |-> MissingFile]]
  /\ UNCHANGED <<files, svClock, htmlVars, jsonVars, themeVars, rebuildVars, envVars,
                 sendVars, panelVars>>

\* lines 119-137: readJsonFile settles; the collection is upserted in memory,
\* the caller's request stamped, and writeJsonFile is awaited.
SaveRead(p) ==
  /\ sv[p].pc = "read"
  /\ LET now == svClock + 1
         col == ReadOrNew(files[FileNameOf(sv[p].collectionName)], sv[p].collectionName)
         found == FindIndex(col.requests, sv[p].request.id) >= 1
     IN /\ sv' = [sv EXCEPT ![p].pc = "write",
                            ![p].request = Stamped(sv[p].request, now, found),
                            ![p].collection =
                              [col EXCEPT !.requests = Upsert(col.requests, sv[p].request, now)]]
        /\ svClock' = now
  /\ UNCHANGED <<files, htmlVars, jsonVars, themeVars, rebuildVars, envVars, sendVars,
                 panelVars>>

\* lines 48-51 and 137: the file is written and the call completes.
SaveWrite(p) ==
  /\ sv[p].pc = "write"
  /\ files' = [files EXCEPT ![FileNameOf(sv[p].collectionName)] = sv[p].collection]
  /\ sv' = [sv EXCEPT ![p].pc = "done"]
  /\ UNCHANGED <<svClock, htmlVars, jsonVars, themeVars, rebuildVars, envVars, sendVars,
                 panelVars>>

\* No call is in flight.
NoSaveInFlight == \A q \in Savers : sv[q].pc \in {"idle", "done"}

\* The calls run one after the other: a call starts when none is in flight.
NextSave ==
  \E p \in Savers :
    \/ \E c \in CollectionNames, r \in RequestsToSave : NoSaveInFlight /\ SaveStart(p, c, r)
    \/ SaveRead(p)
    \/ SaveWrite(p)

SpecSave == InitSave /\ [][NextSave]_vars

\* The ids of the requests are distinct.
DistinctIds(requests) ==
  \A i, j \in DOMAIN requests : requests[i].id = requests[j].id => i = j

\* The requests of a collection file; none when the file does not exist yet.
RequestsOf(file) == IF file.kind = "collection" THEN file.requests ELSE <<>>

\* C19: when a call completes on a collection with distinct ids (or on no
\* file yet), the file holds the caller's request r once: in the place of the
\* request that had its id, the others as they were, or after all the others.
C19_UpsertFrame ==
  [][\A p \in Savers :
       (sv[p].pc = "write" /\ sv'[p].pc = "done") =>
         LET f    == FileNameOf(sv[p].collectionName)
             pre  == RequestsOf(files[f])
             post == RequestsOf(files'[f])
             r    == sv'[p].request
         IN (files[f].kind # "invalid" /\ DistinctIds(pre)) =>
              /\ Cardinality({k \in DOMAIN post : post[k].id = r.id}) = 1
              /\ \E k \in DOMAIN post : post[k] = r
              /\ IF \E k \in DOMAIN pre : pre[k].id = r.id
                 THEN post = [k \in DOMAIN pre |-> IF pre[k].id = r.id THEN r ELSE pre[k]]
                 ELSE post = Append(pre, r)]_vars

\* C19's case: a call given the name 'c.json' has completed that replaced
\* the first of two stored requests by one of another name.
C19_Witness ==
  \E p \in Savers :
    /\ sv[p].pc = "done"
    /\ sv[p].collectionName = FileC
    /\ sv[p].request.id = "r1"
    /\ sv[p].request.name = "B"
    /\ files[FileC].requests = <<sv[p].request, StoredB>>

\* The calls may overlap: a saveRequest message is handled, or the
\* duplicate command runs, while another call awaits its read or its write.
NextSaveConcurrent ==
  \E p \in Savers :
    \/ \E c \in CollectionNames, r \in RequestsToSave : SaveStart(p, c, r)
    \/ SaveRead(p)
    \/ SaveWrite(p)

SpecSaveConcurrent == InitSave /\ [][NextSaveConcurrent]_vars

\* C25: once two calls for the same collection file with different request
\* ids have both completed, the file holds both requests.
C25_NoSaveLost ==
  \A p, q \in Savers :
    (/\ p # q
     /\ sv[p].pc = "done" /\ sv[q].pc = "done"
     /\ FileNameOf(sv[p].collectionName) = FileNameOf(sv[q].collectionName)
     /\ sv[p].request.id # sv[q].request.id) =>
      LET stored == RequestsOf(files[FileNameOf(sv[p].collectionName)])
      IN /\ \E k \in DOMAIN stored : stored[k].id = sv[p].request.id
         /\ \E k \in DOMAIN stored : stored[k].id = sv[q].request.id

----------------------------------------------------------------------------
(* WebviewPanelManager.open and the panel's life                           *)

\* AssignedPanel that leaves this.panel unset until getHtml has settled.
MutPanelAssignedLater(id) == NoPanel

\* line 100: this.panel is assigned the new panel before getHtml is awaited
AssignedPanel(id) == id

InitPanel ==
  /\ mPanel = NoPanel
  /\ mTheme = FALSE
  /\ panels = [i \in PanelIds |-> NotCreated]
  /\ mOpens = {}
  /\ mLast = "none"
  /\ app = NoApp
  /\ wvTrace = <<>>
  /\ ed = NoEditor
  /\ calls = <<>>
  /\ HtmlIdle
  /\ JsonIdle
  /\ ThemeIdle
  /\ RebuildIdle
  /\ EnvIdle
  /\ SendIdle
  /\ StoreIdle

\* line 100: the panel createWebviewPanel gives, the first not yet used
NewPanel == CHOOSE id \in PanelIds :
              /\ panels[id].state = "none"
              /\ \A j \in PanelIds : j < id => panels[j].state # "none"

\* lines 94-113: what open() does before it returns its promise. It reveals
\* the panel it has (a disposed panel throws), or creates one, keeps it in
\* this.panel and awaits getHtml.
Opened ==
  IF mPanel # NoPanel
  THEN [mLast |-> IF panels[mPanel].state = "live" THEN "revealed" ELSE "reveal threw",
        panels |-> IF panels[mPanel].state = "live"
                   THEN [panels EXCEPT ![mPanel].visible = TRUE] ELSE panels,
        mPanel |-> mPanel,
        mOpens |-> mOpens]
  ELSE [mLast |-> "created",
        panels |-> [panels EXCEPT ![NewPanel].state = "live", ![NewPanel].visible = TRUE],
        mPanel |-> AssignedPanel(NewPanel),
        mOpens |-> mOpens \cup {NewPanel}]

\* createWebviewPanel has a panel left to give.
CanOpen == mPanel # NoPanel \/ \E id \in PanelIds : panels[id].state = "none"

\* lines 94-113: the command rapi.open calls open().
Open ==
  /\ CanOpen
  /\ mLast' = Opened.mLast
  /\ panels' = Opened.panels
  /\ mPanel' = Opened.mPanel
  /\ mOpens' = Opened.mOpens
  /\ UNCHANGED <<mTheme, app, wvTrace, ed, calls, htmlVars, jsonVars, themeVars, rebuildVars, envVars,
                 sendVars, storeVars>>

\* lines 113-150: getHtml has settled for the open() call that created panel
\* id. The html is set and the listeners are registered; on a panel disposed
\* meanwhile the assignment of the html throws and the call ends there.
OpenResume(id) ==
  /\ id \in mOpens
  /\ mOpens' = mOpens \ {id}
  /\ IF mPanel # NoPanel /\ panels[mPanel].state = "live"
     THEN /\ panels' = [panels EXCEPT ![mPanel].html = TRUE, ![mPanel].onDidDispose = TRUE]
          /\ mTheme' = TRUE
     ELSE UNCHANGED <<panels, mTheme>>
  /\ UNCHANGED <<mPanel, mLast, app, wvTrace, ed, calls, htmlVars, jsonVars, themeVars, rebuildVars,
                 envVars, sendVars, storeVars>>

\* lines 120-124: the user closes panel id; its onDidDispose listener, when
\* registered, clears this.panel and disposes the theme listener. The
\* webview goes with the panel: its App, its listener and the messages not
\* yet handed to it.
UserCloses(id) ==
  /\ panels[id].state = "live"
  /\ panels' = [panels EXCEPT ![id].state = "disposed", ![id].visible = FALSE,
                              ![id].listening = FALSE, ![id].inbox = <<>>]
  /\ app' = NoApp
  /\ ed' = NoEditor
  /\ IF panels[id].onDidDispose
     THEN mPanel' = NoPanel /\ mTheme' = FALSE
     ELSE UNCHANGED <<mPanel, mTheme>>
  /\ UNCHANGED <<mOpens, mLast, wvTrace, calls, htmlVars, jsonVars, themeVars, rebuildVars, envVars,
                 sendVars, storeVars>>

\* The user brings another editor to the front: the panel is kept
\* (retainContextWhenHidden) and no longer visible.
UserHides(id) ==
  /\ panels[id].state = "live"
  /\ panels[id].visible
  /\ panels' = [panels EXCEPT ![id].visible = FALSE]
  /\ UNCHANGED <<mPanel, mTheme, mOpens, mLast, app, wvTrace, ed, calls, htmlVars, jsonVars,
                 themeVars, rebuildVars, envVars, sendVars, storeVars>>

NextPanel ==
  Open \/ (\E id \in PanelIds : OpenResume(id) \/ UserCloses(id) \/ UserHides(id))

SpecPanel == InitPanel /\ [][NextPanel]_vars

\* C28: the panel the manager holds is never one the user has closed, the
\* theme listener is registered only while the manager holds a panel, and
\* no open() call acts on a closed panel.
C28_ClosedPanelIsCleared ==
  /\ mPanel # NoPanel => panels[mPanel].state = "live"
  /\ mTheme => mPanel # NoPanel
  /\ mLast # "reveal threw"

\* The panels that are open.
LivePanels == {id \in PanelIds : panels[id].state = "live"}

\* C20: at most one panel is open, and it is the one the manager holds; no
\* open() call is awaiting the html of another panel.
C20_AtMostOnePanel ==
  /\ Cardinality(LivePanels) <= 1
  /\ LivePanels \subseteq {mPanel}
  /\ Cardinality(mOpens) <= 1

\* C20's case: open() was called while an earlier open() is still awaiting
\* the html of its panel, and revealed that panel; it is the second panel the
\* manager has had.
C20_Witness ==
  /\ mOpens = {mPanel}
  /\ mPanel > 1
  /\ panels[mPanel].state = "live"
  /\ panels[mPanel].visible
  /\ ~panels[mPanel].html
  /\ mLast = "revealed"

----------------------------------------------------------------------------
(* The webview: messages from the extension host and the App component     *)

\* types.ts lines 67-70
OpenRequestMsg(request, collectionName) ==
  [type |-> "openRequestInEditor", request |-> request, collectionName |-> collectionName]

\* lines 163-165: this.panel?.webview.postMessage(msg). Nothing is posted
\* without a panel; the webview of a disposed panel throws.
postMessage(ps, panel, msg) ==
  IF panel # NoPanel /\ ps[panel].state = "live"
  THEN [ps EXCEPT ![panel].inbox = Append(@, msg)]
  ELSE ps

\* The openRequestInEditor messages posted so far and not lost with their
\* panel.
MaxMessages == 2
IsOpenRequest(msg) == msg.type = "openRequestInEditor"
RECURSIVE InboxTotal(_)
InboxTotal(ids) ==
  IF ids = {} THEN 0
  ELSE LET id == CHOOSE i \in ids : TRUE
       IN Len(SelectSeq(panels[id].inbox, IsOpenRequest)) + InboxTotal(ids \ {id})
Posted == Len(SelectSeq([k \in DOMAIN wvTrace |-> wvTrace[k].msg], IsOpenRequest))
            + InboxTotal(PanelIds)

\* The requests of the collection shown in the sidebar tree.
SavedRequests ==
  { [kind |-> "request", id |-> "r1", method |-> "GET", url |-> "u", body |-> "null"],
    [kind |-> "request", id |-> "r3", method |-> "POST", url |-> "u", body |-> "b"] }

\* lines 154-160: openRequestInEditor calls open(), which returns at its
\* first await, and posts the message to the panel the manager then holds.
OpenRequestInEditor(request, collectionName) ==
  /\ CanOpen
  /\ Posted < MaxMessages
  /\ mLast' = Opened.mLast
  /\ mPanel' = Opened.mPanel
  /\ mOpens' = Opened.mOpens
  /\ panels' = postMessage(Opened.panels, Opened.mPanel,
                           OpenRequestMsg(request, collectionName))
  /\ UNCHANGED <<mTheme, app, wvTrace, ed, calls, htmlVars, jsonVars, themeVars, rebuildVars, envVars,
                 sendVars, storeVars>>

\* App.tsx lines 88-131: the html of panel id has been set; its script runs,
\* App mounts with its initial state and the message listener is attached.
WebviewLoads(id) ==
  /\ panels[id].state = "live"
  /\ panels[id].html
  /\ ~panels[id].listening
  /\ panels' = [panels EXCEPT ![id].listening = TRUE]
  /\ app' = NoApp
  /\ ed' = NoEditor
  /\ UNCHANGED <<mPanel, mTheme, mOpens, mLast, wvTrace, calls, htmlVars, jsonVars, themeVars,
                 rebuildVars, envVars, sendVars, storeVars>>

\* App.tsx lines 89-124: the message listener
OnExtensionMessage(a, msg) ==
  CASE msg.type = "requestResult" ->
         [a EXCEPT !.result = msg.result, !.error = Null, !.sending = FALSE]
    [] msg.type = "requestError" ->
         [a EXCEPT !.error = msg.error, !.result = Null, !.sending = FALSE]
    [] msg.type = "openRequestInEditor" ->
         [a EXCEPT !.activeRequest = msg.request, !.result = Null, !.error = Null]
    [] OTHER -> a

\* RequestEditor.tsx lines 113-140: the effect that follows a change of
\* activeRequest copies the request into the editor's fields.
EditorSync(e, activeRequest) ==
  IF activeRequest # Null
  THEN [e EXCEPT !.method = activeRequest.method,
                 !.url = activeRequest.url,
                 !.body = IF activeRequest.body = "null" THEN "" ELSE activeRequest.body,
                 !.requestId = activeRequest.id]
  ELSE e

\* The webview of panel id is handed the oldest message posted to it: the
\* listener takes it when App has attached one, and it is lost otherwise.
Deliver(id) ==
  /\ panels[id].state = "live"
  /\ panels[id].inbox # <<>>
  /\ panels' = [panels EXCEPT ![id].inbox = Tail(@)]
  /\ app' = IF panels[id].listening THEN OnExtensionMessage(app, Head(panels[id].inbox))
            ELSE app
  /\ ed' = IF panels[id].listening /\ Head(panels[id].inbox).type = "openRequestInEditor"
           THEN EditorSync(ed, Head(panels[id].inbox).request)
           ELSE ed
  /\ wvTrace' = Append(wvTrace, [msg |-> Head(panels[id].inbox),
                                 received |-> panels[id].listening])
  /\ UNCHANGED <<mPanel, mTheme, mOpens, mLast, calls, htmlVars, jsonVars, themeVars,
                 rebuildVars, envVars, sendVars, storeVars>>

\* The panels created while the webview is followed: the step leaves the
\* panels beyond the first MaxWebviews unused.
MaxWebviews == 1
WithinWebviews == panels'[MaxWebviews + 1].state = "none"

NextOpenRequest ==
  \/ NextPanel /\ WithinWebviews
  \/ \E r \in SavedRequests : OpenRequestInEditor(r, FileC) /\ WithinWebviews
  \/ \E id \in PanelIds : WebviewLoads(id) \/ Deliver(id)

SpecOpenRequest == InitPanel /\ [][NextOpenRequest]_vars

\* C22: every openRequestInEditor message handed to a webview is taken by
\* the listener of App, which the webview has only once the html of the
\* panel is set and its script has run; the request is then the one in the
\* editor.
C22_OpenRequestReceived ==
  \A k \in DOMAIN wvTrace :
    wvTrace[k].msg.type = "openRequestInEditor" => wvTrace[k].received

----------------------------------------------------------------------------
(* Sending from the editor, and handleMessage's sendRequest case           *)

\* RequestEditor.tsx lines 167-178; null is "null".
buildSpec(e) ==
  [kind |-> "request", id |-> e.requestId, method |-> e.method, url |-> e.url,
   body |-> IF e.body = "" THEN "null" ELSE e.body]

\* The panel whose webview shows App, if any.
Showing == {id \in PanelIds : panels[id].state = "live" /\ panels[id].listening
                              /\ panels[id].visible}

\* RequestEditor.tsx lines 143-146 and 248-254: the user types in the url
\* bar.
TypeUrl(raw) ==
  /\ Showing # {}
  /\ ed.url # raw
  /\ ed' = [ed EXCEPT !.url = raw]
  /\ UNCHANGED <<mPanel, mTheme, panels, mOpens, mLast, app, wvTrace, calls, htmlVars,
                 jsonVars, themeVars, rebuildVars, envVars, sendVars, storeVars>>

\* The sendRequest messages posted by webviews so far.
MaxSends == 2

\* RequestEditor.tsx lines 180-187 and App.tsx lines 133-137: the user
\* sends the request in the editor, by the Send button (disabled while
\* sending or without a url, lines 255-261) or by Ctrl/Cmd+Enter (lines
\* 209-214). The sendRequest message is posted and App's handleSend runs.
Send(via) ==
  /\ Len(calls) < MaxSends
  /\ via = "button" => ~app.sending /\ ed.url # ""
  /\ \E id \in Showing :
       calls' = Append(calls, [panel |-> id, request |-> buildSpec(ed), pc |-> "posted",
                               replies |-> <<>>, panelOpen |-> FALSE])
  /\ app' = [app EXCEPT !.sending = TRUE, !.result = Null, !.error = Null]
  /\ UNCHANGED <<mPanel, mTheme, panels, mOpens, mLast, wvTrace, ed, htmlVars, jsonVars,
                 themeVars, rebuildVars, envVars, sendVars, storeVars>>

\* lines 169, 190-198: handleMessage is called with the n-th sendRequest
\* message and awaits readEnvironments and sendRequest.
HostReceives(n) ==
  /\ n \in DOMAIN calls
  /\ calls[n].pc = "posted"
  /\ panels[calls[n].panel].state = "live"
  /\ calls' = [calls EXCEPT ![n].pc = "awaiting"]
  /\ UNCHANGED <<mPanel, mTheme, panels, mOpens, mLast, app, wvTrace, ed, htmlVars, jsonVars,
                 themeVars, rebuildVars, envVars, sendVars, storeVars>>

\* How the promise of sendRequest settles: with a result and no missing
\* variable, with a result and missing variables, or rejected.
SendOutcomes == {"resolved", "resolved, missing", "rejected"}

\* types.ts lines 60-64 and 71: the replies; the result or error of the
\* n-th send is named by n.
ResultMsg(request, n) ==
  [type |-> "requestResult", result |-> [kind |-> "result", send |-> n],
   requestId |-> request.id, send |-> n]
ErrorMsg(request, n) ==
  [type |-> "requestError", error |-> [kind |-> "error", send |-> n],
   requestId |-> request.id, send |-> n]
WarningMsg == [type |-> "warning"]

\* Replies that goes on to the catch block after the result is posted.
MutRepliesErrorAfterResult(request, n, outcome) ==
  CASE outcome = "resolved" -> <<ResultMsg(request, n), ErrorMsg(request, n)>>
    [] outcome = "resolved, missing" -> <<ResultMsg(request, n), WarningMsg>>
    [] outcome = "rejected" -> <<ErrorMsg(request, n)>>

\* lines 198-221: the messages handleMessage posts once sendRequest has
\* settled
Replies(request, n, outcome) ==
  CASE outcome = "resolved" -> <<ResultMsg(request, n)>>
    [] outcome = "resolved, missing" -> <<WarningMsg, ResultMsg(request, n)>>
    [] outcome = "rejected" -> <<ErrorMsg(request, n)>>

RECURSIVE PostAll(_, _, _)
PostAll(ps, panel, msgs) ==
  IF msgs = <<>> THEN ps
  ELSE PostAll(postMessage(ps, panel, Head(msgs)), panel, Tail(msgs))

\* The manager holds a panel that is open.
PanelOpen == mPanel # NoPanel /\ panels[mPanel].state = "live"

\* lines 198-221: sendRequest has settled for the n-th message; the replies
\* are posted to the panel the manager holds now. A request without a url
\* is rejected (requester.ts line 80).
HostSettles(n, outcome) ==
  /\ n \in DOMAIN calls
  /\ calls[n].pc = "awaiting"
  /\ calls[n].request.url = "" => outcome = "rejected"
  /\ panels' = PostAll(panels, mPanel, Replies(calls[n].request, n, outcome))
  /\ calls' = [calls EXCEPT ![n].pc = "done",
                            ![n].panelOpen = PanelOpen,
                            ![n].replies = IF PanelOpen
                                           THEN Replies(calls[n].request, n, outcome)
                                           ELSE <<>>]
  /\ UNCHANGED <<mPanel, mTheme, mOpens, mLast, app, wvTrace, ed, htmlVars, jsonVars,
                 themeVars, rebuildVars, envVars, sendVars, storeVars>>

NextWebview ==
  \/ NextOpenRequest
  \/ \E raw \in {"", "u"} : TypeUrl(raw)
  \/ \E via \in {"button", "key"} : Send(via)
  \/ \E n \in 1..MaxSends : HostReceives(n)
  \/ \E n \in 1..MaxSends, outcome \in SendOutcomes : HostSettles(n, outcome)

SpecWebview == InitPanel /\ [][NextWebview]_vars

\* The sends of the webview that shows App now, and the latest of them.
SendsShown == {n \in DOMAIN calls : panels[calls[n].panel].state = "live"}
IsLatestShown(n) == n \in SendsShown /\ \A m \in SendsShown : m <= n

\* A reply to the n-th send has been taken by the listener.
ReplyReceived(n) ==
  \E k \in DOMAIN wvTrace :
    /\ wvTrace[k].received
    /\ wvTrace[k].msg.type \in {"requestResult", "requestError"}
    /\ wvTrace[k].msg.send = n

\* C23: the result or error App shows is that of the latest send, and of
\* the request that is in the editor; the sending flag is cleared only by
\* the reply to the latest send.
C23_ResponseIsOfLatestSend ==
  /\ app.result # Null =>
       /\ IsLatestShown(app.result.send)
       /\ calls[app.result.send].request.id = ed.requestId
  /\ app.error # Null =>
       /\ IsLatestShown(app.error.send)
       /\ calls[app.error.send].request.id = ed.requestId
  /\ (SendsShown # {} /\ ~app.sending) =>
       \E n \in SendsShown : IsLatestShown(n) /\ ReplyReceived(n)

\* C30: result and error of App are never both set, and both are null
\* while a send of the webview has not had its reply taken by the listener.
C30_ResultXorError ==
  /\ app.result = Null \/ app.error = Null
  /\ \A n \in SendsShown : ~ReplyReceived(n) => app.result = Null /\ app.error = Null

\* The panel, the editor's sends and the handling of the sendRequest
\* messages.
NextReply ==
  \/ Open /\ WithinWebviews
  \/ \E id \in PanelIds : OpenResume(id) \/ WebviewLoads(id) \/ UserCloses(id)
  \/ \E raw \in {"", "u"} : TypeUrl(raw)
  \/ \E via \in {"button", "key"} : Send(via)
  \/ \E n \in 1..MaxSends : HostReceives(n)
  \/ \E n \in 1..MaxSends, outcome \in SendOutcomes : HostSettles(n, outcome)

SpecReply == InitPanel /\ [][NextReply]_vars

\* The messages a step has posted to the panel the manager holds.
NewlyPosted ==
  SubSeq(panels'[mPanel].inbox, Len(panels[mPanel].inbox) + 1, Len(panels'[mPanel].inbox))
IsTerminal(msg) == msg.type \in {"requestResult", "requestError"}

\* C24: when the handling of a sendRequest message ends while the panel is
\* open, the messages it posts hold exactly one of requestResult and
\* requestError, with the id of the request, and a warning only before a
\* requestResult.
C24_OneTerminalReply ==
  [][\A n \in DOMAIN calls :
       (calls[n].pc = "awaiting" /\ calls'[n].pc = "done" /\ PanelOpen) =>
         LET new == NewlyPosted
             terminal == SelectSeq(new, IsTerminal)
         IN /\ Len(terminal) = 1
            /\ terminal[1].requestId = calls[n].request.id
            /\ terminal[1].send = n
            /\ new[Len(new)] = terminal[1]
            /\ \A k \in 1..(Len(new) - 1) :
                 new[k].type = "warning" /\ terminal[1].type = "requestResult"]_vars

\* C24's case: a sendRequest message was handled with the panel open, the
\* environment lacked a variable, and a warning and then the result were
\* posted; the handling of another message ended with a requestError.
C24_Witness ==
  /\ \E n \in DOMAIN calls :
       /\ calls[n].pc = "done" /\ calls[n].panelOpen
       /\ Len(calls[n].replies) = 2
       /\ calls[n].replies[1].type = "warning"
       /\ calls[n].replies[2].type = "requestResult"
  /\ \E n \in DOMAIN calls :
       /\ calls[n].pc = "done" /\ calls[n].panelOpen
       /\ Len(calls[n].replies) = 1
       /\ calls[n].replies[1].type = "requestError"

----------------------------------------------------------------------------
(* The handler of onDidChangeActiveColorTheme                              *)

\* themeColors.ts lines 206-256: the map getThemeTokenColors gives for the
\* theme kind and the theme name it reads when called, rs being the rules
\* resolveTokenColors gives for the theme file.
GetThemeTokenColors(k, name, rs) ==
  IF ~Truthy(name) \/ LookupTheme(name) = NoUri THEN DefaultsFor(k)
  ELSE BuildColors(DefaultsFor(k), rs)

\* types.ts line 72; the message of the n-th change of the theme.
ThemeMsg(colors, n) == [type |-> "themeColorsUpdated", css |-> colors, change |-> n]

\* The themes the user switches between, and the changes followed.
ActiveThemes == [kind : {"Dark", "Light"}, name : {"solar", "ghost"}]
MaxThemeChanges == 2

InitThemeChange ==
  /\ \E t \in ActiveThemes : kind = t.kind /\ themeName = t.name
  /\ rules \in TokenColorsPool
  /\ fs = [u \in Uris |-> IF u = LookupTheme("solar")
                           THEN Doc(TRUE, NoUri, TRUE, rules) ELSE UnreadableDoc]
  /\ tPc = "idle"
  /\ defaults = NoColors
  /\ stack = <<>>
  /\ cur = NoUri
  /\ ret = <<>>
  /\ result = NoColors
  /\ HtmlIdle
  /\ JsonIdle
  /\ RebuildIdle
  /\ EnvIdle
  /\ SendIdle
  /\ StoreIdle
  /\ PanelIdle

\* The handler call of a change to theme t: with no listener registered
\* or no panel (line 128) nothing is computed; getThemeTokenColors returns
\* at once when no theme file is found (lines 218, 237) and awaits
\* resolveTokenColors otherwise (line 239).
HandlerCall(t) ==
  [kind |-> t.kind, name |-> t.name,
   pc |-> IF ~mTheme \/ mPanel = NoPanel THEN "none"
          ELSE IF ~Truthy(t.name) \/ LookupTheme(t.name) = NoUri THEN "done"
          ELSE "await"]

\* lines 126-150: the user activates theme t. The listener, when
\* registered, calls getThemeTokenColors, which reads the theme kind and
\* name; a call that needs no file posts its colors before anything else
\* runs.
ThemeChanges(t) ==
  /\ Len(themeCalls) < MaxThemeChanges
  /\ <<t.kind, t.name>> # <<kind, themeName>>
  /\ kind' = t.kind
  /\ themeName' = t.name
  /\ themeCalls' = Append(themeCalls, HandlerCall(t))
  /\ panels' = IF HandlerCall(t).pc = "done"
               THEN postMessage(panels, mPanel,
                                ThemeMsg(GetThemeTokenColors(t.kind, t.name, rules),
                                         Len(themeCalls) + 1))
               ELSE panels
  /\ UNCHANGED <<fs, tPc, defaults, stack, cur, ret, rules, result, heap, rb, maps,
                 mPanel, mTheme, mOpens, mLast, app, wvTrace, ed, calls,
                 htmlVars, jsonVars, envVars, sendVars, storeVars>>

\* lines 129-147: resolveTokenColors has settled for the handler call of
\* the n-th change; the colors are built and posted to the panel the
\* manager holds now.
ThemeHandlerSettles(n) ==
  /\ n \in DOMAIN themeCalls
  /\ themeCalls[n].pc = "await"
  /\ themeCalls' = [themeCalls EXCEPT ![n].pc = "done"]
  /\ panels' = postMessage(panels, mPanel,
                           ThemeMsg(GetThemeTokenColors(themeCalls[n].kind,
                                                        themeCalls[n].name, rules), n))
  /\ UNCHANGED <<heap, rb, maps, mPanel, mTheme, mOpens, mLast, app, wvTrace, ed, calls,
                 htmlVars, jsonVars, themeVars, envVars, sendVars, storeVars>>

NextThemeChange ==
  \/ Open /\ WithinWebviews
  \/ \E id \in PanelIds : OpenResume(id) \/ UserCloses(id)
  \/ \E t \in ActiveThemes : ThemeChanges(t)
  \/ \E n \in 1..MaxThemeChanges : ThemeHandlerSettles(n)

SpecThemeChange == InitThemeChange /\ [][NextThemeChange]_vars

\* The themeColorsUpdated messages posted to the panel that is open.
ThemeMsgsPosted ==
  IF PanelOpen
  THEN SelectSeq(panels[mPanel].inbox, LAMBDA m : m.type = "themeColorsUpdated")
  ELSE <<>>

\* C26: the themeColorsUpdated messages are posted in the order of the
\* theme changes they are for, and once no handler call is awaiting its
\* colors the last one posted carries the colors of the active theme.
C26_ThemeColorsInOrder ==
  LET posted == ThemeMsgsPosted
  IN /\ \A i, j \in DOMAIN posted : i < j => posted[i].change < posted[j].change
     /\ (posted # <<>> /\ \A n \in DOMAIN themeCalls : themeCalls[n].pc # "await") =>
          posted[Len(posted)].css = GetThemeTokenColors(kind, themeName, rules)

----------------------------------------------------------------------------
(* createCollection (src/api/fileStore.ts)                                 *)

\* lines 160-169: the file the name stands for is written with a collection
\* of that name and no requests, whatever the file held.
CreateCollection(name) ==
  /\ files' = [files EXCEPT ![FileNameOf(name)] = CollectionFile(StripJson(name), <<>>)]
  /\ UNCHANGED <<sv, svClock, htmlVars, jsonVars, themeVars, rebuildVars, envVars,
                 sendVars, panelVars>>

\* The rapi.createCollection command and the createCollection message run
\* between the calls of saveRequestToCollection.
NextCreate ==
  \/ NextSave
  \/ \E c \in CollectionNames : NoSaveInFlight /\ CreateCollection(c)

SpecCreate == InitSave /\ [][NextCreate]_vars

\* C27: a call of createCollection (the step that writes a file while no
\* saveRequestToCollection call moves) leaves the requests of the file as
\* they were.
C27_CreateKeepsRequests ==
  [][\A f \in FileNames :
       (sv' = sv /\ files'[f] # files[f]) => RequestsOf(files'[f]) = RequestsOf(files[f])]_vars

----------------------------------------------------------------------------
(* The request editor: method, tabs and body                               *)

\* RequestEditor.tsx line 27
METHODS == {"GET", "POST", "PUT", "PATCH", "DELETE", "OPTIONS"}

\* RequestEditor.tsx line 219
hasBody(method) == method \in {"POST", "PUT", "PATCH"}

\* lines 236-247: the user picks a method in the select.
SetMethod(m) ==
  /\ Showing # {}
  /\ ed.method # m
  /\ ed' = [ed EXCEPT !.method = m]
  /\ UNCHANGED <<mPanel, mTheme, panels, mOpens, mLast, app, wvTrace, calls, htmlVars,
                 jsonVars, themeVars, rebuildVars, envVars, sendVars, storeVars>>

\* lines 283-303: the user clicks a tab; the Body tab reacts only with a
\* method that has a body.
ClickTab(tab) ==
  /\ Showing # {}
  /\ ed.activeTab # tab
  /\ tab = "body" => hasBody(ed.method)
  /\ ed' = [ed EXCEPT !.activeTab = tab]
  /\ UNCHANGED <<mPanel, mTheme, panels, mOpens, mLast, app, wvTrace, calls, htmlVars,
                 jsonVars, themeVars, rebuildVars, envVars, sendVars, storeVars>>

\* lines 325-333: the user types in the textarea of the Body tab, shown
\* with the tab active and a method that has a body.
TypeBody(text) ==
  /\ Showing # {}
  /\ ed.activeTab = "body"
  /\ hasBody(ed.method)
  /\ ed.body # text
  /\ ed' = [ed EXCEPT !.body = text]
  /\ UNCHANGED <<mPanel, mTheme, panels, mOpens, mLast, app, wvTrace, calls, htmlVars,
                 jsonVars, themeVars, rebuildVars, envVars, sendVars, storeVars>>

\* lines 189-196 and App.tsx lines 174-177: the user clicks the save button
\* of the pane title (disabled without a url); the saveRequest message is
\* posted with the request buildSpec gives.
Save ==
  /\ Len(calls) < MaxSends
  /\ ed.url # ""
  /\ \E id \in Showing :
       calls' = Append(calls, [panel |-> id, request |-> buildSpec(ed), pc |-> "saveRequest",
                               replies |-> <<>>, panelOpen |-> FALSE])
  /\ UNCHANGED <<mPanel, mTheme, panels, mOpens, mLast, app, wvTrace, ed, htmlVars, jsonVars,
                 themeVars, rebuildVars, envVars, sendVars, storeVars>>

NextEditor ==
  \/ Open /\ WithinWebviews
  \/ \E id \in PanelIds : OpenResume(id) \/ WebviewLoads(id)
  \/ \E raw \in {"", "u"} : TypeUrl(raw)
  \/ \E m \in METHODS : SetMethod(m)
  \/ \E tab \in {"params", "headers", "body"} : ClickTab(tab)
  \/ \E text \in {"", "b"} : TypeBody(text)
  \/ \E via \in {"button", "key"} : Send(via)
  \/ Save

SpecEditor == InitPanel /\ [][NextEditor]_vars

\* C29: the request of every sendRequest and saveRequest message posted
\* from the editor with a method other than POST, PUT and PATCH has the
\* body null.
C29_NoBodyWithoutBodyMethod ==
  \A n \in DOMAIN calls :
    ~hasBody(calls[n].request.method) => calls[n].request.body = "null"

====
